---- MODULE Spec2Model ----
(***************************************************************************)
(* touchh.world: the tap-driven client page (app/page.tsx), the            *)
(* tap-context route handler (api/tap-context), the geo-context route      *)
(* handler (api/geo-context), the in-memory rate limiter (lib/rateLimit)   *)
(* the gesture state machine (lib/gestureStateMachine), the confidence     *)
(* smoother (lib/confidenceSmoothing) and the vector utilities             *)
(* (lib/vectorMath).                                                       *)
(*                                                                         *)
(* Nine specifications share this module:                                  *)
(*   Spec        the client page: taps, the asynchronous steps of          *)
(*               handleTap, the card and the loading indicator;            *)
(*   SpecLive    the same page when timers fire and every promise that     *)
(*               handleTap awaits settles;                                 *)
(*   SpecServer  one execution of POST /api/tap-context, step by step,     *)
(*               with every collaborator outcome chosen by the             *)
(*               environment;                                              *)
(*   SpecRL      checkRateLimit called by two clients while time passes;   *)
(*   SpecRank    the two ranking strategies applied to one search          *)
(*               response listed in two orders;                            *)
(*   SpecSM      the gesture state machine (lib/gestureStateMachine) with  *)
(*               its confidence smoother, driven by signals and the clock, *)
(*               and observers registered with onStateChange;              *)
(*   SpecSMLive  the same machine with a gesture that ends, under a fair   *)
(*               clock, fair timeouts and a fair microtask queue;          *)
(*   SpecSmoother  smooth, getCurrent and reset called on a smoother;      *)
(*   SpecVec     normalize2D, normalize3D and angleBetween3D applied to    *)
(*               every pair of small integer vectors.                      *)
(* Numbers with fractions are scaled to integers; the scale is stated at   *)
(* each definition.                                                        *)
(***************************************************************************)
EXTENDS Integers, Sequences, FiniteSets, TLC

\* ------------------------------------------------------------------------
\* Bounds of the model (not program constants)
\* ------------------------------------------------------------------------
MaxTaps == 2
MaxFrames == 1
MaxTicks == 3

\* ------------------------------------------------------------------------
\* State
\* ------------------------------------------------------------------------
VARIABLES
  \* --- client page (app/page.tsx) ---
  contextCard,      \* 0 = null, otherwise the attempt whose response set it
  isLoading,        \* useState(false)
  isProcessingRef,  \* useRef(false).current
  location,         \* "none" (null) or "known"
  geoAsked,         \* the mount effect's getCurrentPosition is still pending
  videoReady,       \* video.readyState >= 2 with non-zero dimensions
  attempt,          \* attempt id -> position of that handleTap invocation
  nextAttempt,      \* next free attempt id
  clickPending,     \* the click a touch tap is followed by: "none" or its target
  frames,           \* per-frame callbacks delivered
  userTaps,         \* history: user tap gestures
  tapEvents,        \* history: handleTap invocations
  requestsSent,     \* history: fetch('/api/tap-context') calls
  cardAtTap,        \* history: attempt id -> card displayed when it was accepted
  cardAtSend,       \* history: attempt id -> card displayed when its request was sent
  dismissals,       \* history: onDismiss invocations
  \* --- rate limiter (lib/rateLimit) ---
  rateLimitStore,   \* client -> entry
  now,              \* Date.now()
  lastReturn,       \* history: the last value checkRateLimit returned, and to whom
  granted,          \* history: client -> calls allowed in the window last returned
  grantedWindow,    \* history: client -> the resetAt last returned
  \* --- POST /api/tap-context ---
  spc,              \* position of the handler
  req,              \* the request being handled
  hasKey,           \* process.env.GOOGLE_API_KEY is set
  rateLimit,        \* const rateLimit
  visionResult,     \* let visionResult
  visionKind,       \* history: what the vision call did
  placeId,          \* let placeId (0: null)
  placeFrom,        \* history: the strategy that accepted placeId
  queryIdx,         \* position in searchQueries
  detail,           \* history: what the details call did
  callLog,          \* history: the collaborator calls of this attempt, in order
  result,           \* the response
  thrown,           \* history: message of the exception the outer catch caught
  served,           \* history: responses sent
  geoPlace,         \* history: places[0] of the geo-context response (0: none)
  textSole,         \* history: the place of the last text-search response
                    \* when it held exactly one place (0 otherwise)
  \* --- candidate ranking (Strategy 1 and Strategy 2 of tap-context) ---
  rpc,              \* "idle", "drawn" or "ranked"
  rankHint,         \* the vision hint
  rankTapX,         \* the tap
  rankResults,      \* one search response
  rankOrder,        \* the same places in another order
  rankPicked,       \* what each strategy accepts for each order
  \* --- gesture state machine (lib/gestureStateMachine) ---
  state,            \* context.state
  ctxConfidence,    \* context.confidence, times 1600
  stabilityDuration,\* context.stabilityDuration in ms
  lastDirection,    \* "none" (null) or the direction recorded
  sinceTimestamp,   \* Date.now() - context.timestamp in ms
  history,          \* ConfidenceSmoother.history, each value times 1600
  engineCalls,      \* history: identifications triggered
  lockEntries,      \* history: entries into INTENT_LOCKED
  prevState,        \* history: the state before the last operation
  lastOp,           \* history: the last operation
  lastSignal,       \* history: the signal of the last update
  ctxBefore,        \* history: the context the last operation started from
  signalsEnded,     \* the gesture is over: no qualifying signal arrives any more
  observers,        \* the number of callbacks registered with onStateChange
  notifications,    \* history: the callback calls made by the last operation
  \* lib/confidenceSmoothing and lib/vectorMath called on their own
  smoothCalls,      \* history: the values passed to smooth since the last reset()
  returned,         \* the value the last smooth or getCurrent returned
  resetDiscarded,   \* history: the calls the last reset() discarded, -1 without one
  libOp,            \* history: the last call
  vecA, vecB,       \* the arguments of the vector utilities
  vecResult         \* what the last vector utility returned

pageVars == <<contextCard, isLoading, isProcessingRef, location, geoAsked,
              videoReady, attempt, nextAttempt, clickPending, frames,
              userTaps, tapEvents, requestsSent, cardAtTap, cardAtSend,
              dismissals>>

rlVars == <<rateLimitStore, now, lastReturn, granted, grantedWindow>>

serverVars == <<spc, req, hasKey, rateLimit, visionResult, visionKind, placeId,
                placeFrom, queryIdx, detail, callLog, result, thrown, served,
                geoPlace, textSole>>

rankVars == <<rpc, rankHint, rankTapX, rankResults, rankOrder, rankPicked>>

libVars == <<smoothCalls, returned, resetDiscarded, libOp, vecA, vecB, vecResult>>

smVars == <<state, ctxConfidence, stabilityDuration, lastDirection, sinceTimestamp,
            history, engineCalls, lockEntries, prevState, lastOp, lastSignal,
            ctxBefore, signalsEnded, observers, notifications, libVars>>

vars == <<pageVars, rlVars, serverVars, rankVars, smVars>>

Attempts == 1..(2 * MaxTaps)

\* ------------------------------------------------------------------------
\* Client page
\* ------------------------------------------------------------------------
PageInit ==
  /\ contextCard = 0
  /\ isLoading = FALSE
  /\ isProcessingRef = FALSE
  /\ location = "none"
  /\ geoAsked = TRUE
  /\ videoReady = FALSE
  /\ attempt = [a \in Attempts |-> "none"]
  /\ nextAttempt = 1
  /\ clickPending = "none"
  /\ frames = 0
  /\ userTaps = 0
  /\ tapEvents = 0
  /\ requestsSent = 0
  /\ cardAtTap = [a \in Attempts |-> 0]
  /\ cardAtSend = [a \in Attempts |-> 0]
  /\ dismissals = 0

\* The attempts whose request has been sent and whose response has not yet
\* been handled.
InFlight == {a \in Attempts : attempt[a] = "fetch"}

\* useEffect on mount: getCurrentPosition succeeds and setLocation is called.
LocationAcquired ==
  /\ geoAsked
  /\ geoAsked' = FALSE
  /\ location' = "known"
  /\ UNCHANGED <<contextCard, isLoading, isProcessingRef, videoReady, attempt,
                 nextAttempt, clickPending, frames, userTaps, tapEvents,
                 requestsSent, cardAtTap, cardAtSend, dismissals>>
  /\ UNCHANGED <<rlVars, serverVars, rankVars, smVars>>

\* useEffect on mount: the error callback ("fail soft").
LocationFailed ==
  /\ geoAsked
  /\ geoAsked' = FALSE
  /\ UNCHANGED <<contextCard, isLoading, isProcessingRef, location, videoReady,
                 attempt, nextAttempt, clickPending, frames, userTaps,
                 tapEvents, requestsSent, cardAtTap, cardAtSend, dismissals>>
  /\ UNCHANGED <<rlVars, serverVars, rankVars, smVars>>

\* CameraFeed.startCamera: the stream plays, the video has data.
CameraStarted ==
  /\ ~videoReady
  /\ videoReady' = TRUE
  /\ UNCHANGED <<contextCard, isLoading, isProcessingRef, location, geoAsked,
                 attempt, nextAttempt, clickPending, frames, userTaps,
                 tapEvents, requestsSent, cardAtTap, cardAtSend, dismissals>>
  /\ UNCHANGED <<rlVars, serverVars, rankVars, smVars>>

\* A per-frame callback that runs an inference on every frame.
handleFrameInfers == requestsSent + 1

\* The request counter after the per-frame callback: handleFrame has an
\* empty body.
handleFrameRequests == requestsSent

\* CameraFeed.frameLoop -> onFrame -> handleFrame.
handleFrame ==
  /\ videoReady
  /\ frames < MaxFrames
  /\ frames' = frames + 1
  /\ requestsSent' = handleFrameRequests
  /\ UNCHANGED <<contextCard, isLoading, isProcessingRef, location, geoAsked,
                 videoReady, attempt, nextAttempt, clickPending, userTaps,
                 tapEvents, cardAtTap, cardAtSend, dismissals>>
  /\ UNCHANGED <<rlVars, serverVars, rankVars, smVars>>

\* The card left in place when a tap is accepted.
DismissOnTapKeeps(card) == card

\* The card after the "Dismiss existing card" branch of handleTap.
DismissOnTap(card) == 0

\* handleTap up to its first await.  coordsOk: clientX and clientY are truthy.
\* A rejected event returns early; an accepted one either waits for the
\* dismiss animation (a card is displayed) or sets the in-progress flag and
\* starts extractROI.
handleTap(coordsOk) ==
  /\ tapEvents' = tapEvents + 1
  /\ IF isProcessingRef \/ ~videoReady \/ ~coordsOk
       THEN UNCHANGED <<contextCard, isLoading, isProcessingRef, attempt,
                        nextAttempt, cardAtTap>>
       ELSE /\ nextAttempt' = nextAttempt + 1
            /\ cardAtTap' = [cardAtTap EXCEPT ![nextAttempt] = contextCard]
            /\ IF contextCard # 0
                 THEN /\ contextCard' = DismissOnTap(contextCard)
                      /\ attempt' = [attempt EXCEPT ![nextAttempt] = "dismissWait"]
                      /\ UNCHANGED <<isLoading, isProcessingRef>>
                 ELSE /\ isProcessingRef' = TRUE
                      /\ isLoading' = TRUE
                      /\ attempt' = [attempt EXCEPT ![nextAttempt] = "extract"]
                      /\ UNCHANGED contextCard

\* A tap with a mouse: one click event.  On the card the click is stopped
\* (stopPropagation); on the dismiss button it calls onDismiss and is stopped
\* by the card.
MouseTap(target, coordsOk) ==
  /\ userTaps < MaxTaps
  /\ clickPending = "none"
  /\ target \in {"card", "dismiss"} => contextCard # 0
  /\ userTaps' = userTaps + 1
  /\ CASE target = "scene" ->
            /\ handleTap(coordsOk)
            /\ UNCHANGED dismissals
       [] target = "card" ->
            UNCHANGED <<contextCard, isLoading, isProcessingRef, attempt,
                        nextAttempt, cardAtTap, tapEvents, dismissals>>
       [] target = "dismiss" ->
            /\ contextCard' = 0
            /\ dismissals' = dismissals + 1
            /\ UNCHANGED <<isLoading, isProcessingRef, attempt, nextAttempt,
                           cardAtTap, tapEvents>>
  /\ UNCHANGED <<location, geoAsked, videoReady, clickPending, frames,
                 requestsSent, cardAtSend>>
  /\ UNCHANGED <<rlVars, serverVars, rankVars, smVars>>

\* A tap with a finger: touchstart bubbles to <main> from every target and
\* invokes handleTap; the browser then delivers a click for the same tap.
TouchTap(target, coordsOk) ==
  /\ userTaps < MaxTaps
  /\ clickPending = "none"
  /\ target \in {"card", "dismiss"} => contextCard # 0
  /\ userTaps' = userTaps + 1
  /\ handleTap(coordsOk)
  /\ clickPending' = target
  /\ UNCHANGED <<location, geoAsked, videoReady, frames, requestsSent,
                 cardAtSend, dismissals>>
  /\ UNCHANGED <<rlVars, serverVars, rankVars, smVars>>

\* The click that follows a touch tap.  If the card it was aimed at has been
\* removed meanwhile, the click lands on <main> or is dropped, as the browser
\* decides (landsOnMain).
TouchClick(coordsOk, landsOnMain) ==
  /\ clickPending # "none"
  /\ clickPending' = "none"
  /\ LET target == IF clickPending \in {"card", "dismiss"} /\ contextCard = 0
                     THEN (IF landsOnMain THEN "scene" ELSE "dropped")
                     ELSE clickPending
     IN CASE target = "scene" ->
               /\ handleTap(coordsOk)
               /\ UNCHANGED dismissals
          [] target = "dismiss" ->
               /\ contextCard' = 0
               /\ dismissals' = dismissals + 1
               /\ UNCHANGED <<isLoading, isProcessingRef, attempt, nextAttempt,
                              cardAtTap, tapEvents>>
          [] OTHER ->
               UNCHANGED <<contextCard, isLoading, isProcessingRef, attempt,
                           nextAttempt, cardAtTap, tapEvents, dismissals>>
  /\ UNCHANGED <<location, geoAsked, videoReady, frames, userTaps,
                 requestsSent, cardAtSend>>
  /\ UNCHANGED <<rlVars, serverVars, rankVars, smVars>>

\* handleTap after the 100 ms dismiss delay: enter the try block.
DismissDelayOver(a) ==
  /\ attempt[a] = "dismissWait"
  /\ isProcessingRef' = TRUE
  /\ isLoading' = TRUE
  /\ attempt' = [attempt EXCEPT ![a] = "extract"]
  /\ UNCHANGED <<contextCard, location, geoAsked, videoReady, nextAttempt,
                 clickPending, frames, userTaps, tapEvents, requestsSent,
                 cardAtTap, cardAtSend, dismissals>>
  /\ UNCHANGED <<rlVars, serverVars, rankVars, smVars>>

\* The number of requests one accepted attempt sends once extractROI has
\* resolved: a single fetch, no retry.
FetchesPerAttempt == 1

\* extractROI settles.  Resolved: fetch('/api/tap-context') is called.
\* Rejected: catch, then finally.
ExtractSettled(a, resolved) ==
  /\ attempt[a] = "extract"
  /\ IF resolved
       THEN /\ requestsSent' = requestsSent + FetchesPerAttempt
            /\ cardAtSend' = [cardAtSend EXCEPT ![a] = contextCard]
            /\ attempt' = [attempt EXCEPT ![a] = "fetch"]
            /\ UNCHANGED <<isLoading, isProcessingRef>>
       ELSE /\ isLoading' = FALSE
            /\ isProcessingRef' = FALSE
            /\ attempt' = [attempt EXCEPT ![a] = "done"]
            /\ UNCHANGED <<requestsSent, cardAtSend>>
  /\ UNCHANGED <<contextCard, location, geoAsked, videoReady, nextAttempt,
                 clickPending, frames, userTaps, tapEvents, cardAtTap,
                 dismissals>>
  /\ UNCHANGED <<rlVars, serverVars, rankVars, smVars>>

FetchOutcomes == {"title", "notitle", "notok", "throw"}

\* A handleTap that resets the flag and the indicator at the end of its try
\* block, with no finally: a failed request leaves them set.
FetchSettledWithoutFinally(a, outcome) ==
  /\ attempt[a] = "fetch"
  /\ contextCard' = IF outcome = "title" THEN a ELSE contextCard
  /\ isLoading' = IF outcome \in {"notok", "throw"} THEN isLoading ELSE FALSE
  /\ isProcessingRef' = IF outcome \in {"notok", "throw"} THEN isProcessingRef
                         ELSE FALSE
  /\ attempt' = [attempt EXCEPT ![a] = "done"]
  /\ UNCHANGED <<location, geoAsked, videoReady, nextAttempt, clickPending,
                 frames, userTaps, tapEvents, requestsSent, cardAtTap,
                 cardAtSend, dismissals>>
  /\ UNCHANGED <<rlVars, serverVars, rankVars, smVars>>

\* The request settles: a body with a title sets the card; a body without a
\* title, a non-OK status and a thrown error leave it; finally clears the
\* loading indicator and the in-progress flag.
FetchSettled(a, outcome) ==
  /\ attempt[a] = "fetch"
  /\ contextCard' = IF outcome = "title" THEN a ELSE contextCard
  /\ isLoading' = FALSE
  /\ isProcessingRef' = FALSE
  /\ attempt' = [attempt EXCEPT ![a] = "done"]
  /\ UNCHANGED <<location, geoAsked, videoReady, nextAttempt, clickPending,
                 frames, userTaps, tapEvents, requestsSent, cardAtTap,
                 cardAtSend, dismissals>>
  /\ UNCHANGED <<rlVars, serverVars, rankVars, smVars>>

PageNext ==
  \/ LocationAcquired
  \/ LocationFailed
  \/ CameraStarted
  \/ handleFrame
  \/ \E t \in {"scene", "card", "dismiss"}, ok \in BOOLEAN : MouseTap(t, ok)
  \/ \E t \in {"scene", "card", "dismiss"}, ok \in BOOLEAN : TouchTap(t, ok)
  \/ \E ok \in BOOLEAN, m \in BOOLEAN : TouchClick(ok, m)
  \/ \E a \in Attempts : DismissDelayOver(a)
  \/ \E a \in Attempts, r \in BOOLEAN : ExtractSettled(a, r)
  \/ \E a \in Attempts, o \in FetchOutcomes : FetchSettled(a, o)


\* ------------------------------------------------------------------------
\* Rate limiter (lib/rateLimit)
\* ------------------------------------------------------------------------
RATE_LIMIT_WINDOW_MS == 60 * 1000
RATE_LIMIT_MAX_REQUESTS == 60
CLEANUP_THRESHOLD == 1000

Clients == {"ip1", "ip2"}

\* A client without an entry in the Map is shown as count 0.
NoEntry == [count |-> 0, resetAt |-> 0]

\* Time advances in half windows.
TickMs == RATE_LIMIT_WINDOW_MS \div 2

\* cleanupExpiredEntries(now): delete every entry whose window is over.
cleanupExpiredEntries(store, t) ==
  [c \in DOMAIN store |->
     IF store[c] # NoEntry /\ t >= store[c].resetAt THEN NoEntry ELSE store[c]]

StoreSize(store) == Cardinality({c \in DOMAIN store : store[c] # NoEntry})

\* A limit test that lets one request too many through.
LimitReachedOffByOne(entry) == entry.count > RATE_LIMIT_MAX_REQUESTS

\* entry.count >= RATE_LIMIT_MAX_REQUESTS
LimitReached(entry) == entry.count >= RATE_LIMIT_MAX_REQUESTS

\* A limiter whose denials push the end of the window forward.
checkRateLimitDenialExtends(store, id, t) ==
  LET entry == store[id] IN
  IF entry = NoEntry \/ t >= entry.resetAt
    THEN [store |-> [store EXCEPT ![id] =
                       [count |-> 1, resetAt |-> t + RATE_LIMIT_WINDOW_MS]],
          allowed |-> TRUE,
          remaining |-> RATE_LIMIT_MAX_REQUESTS - 1,
          resetAt |-> t + RATE_LIMIT_WINDOW_MS]
    ELSE IF LimitReached(entry)
      THEN [store |-> [store EXCEPT ![id].resetAt = t + RATE_LIMIT_WINDOW_MS],
            allowed |-> FALSE, remaining |-> 0,
            resetAt |-> t + RATE_LIMIT_WINDOW_MS]
      ELSE [store |-> [store EXCEPT ![id].count = entry.count + 1],
            allowed |-> TRUE,
            remaining |-> RATE_LIMIT_MAX_REQUESTS - (entry.count + 1),
            resetAt |-> entry.resetAt]

\* checkRateLimit(identifier) at time t: the new store and the value returned.
checkRateLimit(store, id, t) ==
  LET entry == store[id] IN
  IF entry = NoEntry \/ t >= entry.resetAt
    THEN LET resetAt == t + RATE_LIMIT_WINDOW_MS
             set == [store EXCEPT ![id] = [count |-> 1, resetAt |-> resetAt]]
         IN [store |-> IF StoreSize(set) > CLEANUP_THRESHOLD
                          THEN cleanupExpiredEntries(set, t) ELSE set,
             allowed |-> TRUE,
             remaining |-> RATE_LIMIT_MAX_REQUESTS - 1,
             resetAt |-> resetAt]
    ELSE IF LimitReached(entry)
      THEN [store |-> store, allowed |-> FALSE, remaining |-> 0,
            resetAt |-> entry.resetAt]
      ELSE [store |-> [store EXCEPT ![id].count = entry.count + 1],
            allowed |-> TRUE,
            remaining |-> RATE_LIMIT_MAX_REQUESTS - (entry.count + 1),
            resetAt |-> entry.resetAt]

NoReturn == [id |-> "", at |-> 0, allowed |-> FALSE, remaining |-> 0, resetAt |-> 0]

RLInit ==
  /\ rateLimitStore = [c \in Clients |-> NoEntry]
  /\ now = 0
  /\ lastReturn = NoReturn
  /\ granted = [c \in Clients |-> 0]
  /\ grantedWindow = [c \in Clients |-> 0]

\* A request of client id reaches a route handler, which calls
\* checkRateLimit.  granted counts, from the values returned alone, the calls
\* allowed in the window that ends at the returned resetAt.
CallCheckRateLimit(id) ==
  LET r == checkRateLimit(rateLimitStore, id, now) IN
  /\ rateLimitStore' = r.store
  /\ lastReturn' = [id |-> id, at |-> now, allowed |-> r.allowed,
                    remaining |-> r.remaining, resetAt |-> r.resetAt]
  /\ grantedWindow' = [grantedWindow EXCEPT ![id] = r.resetAt]
  /\ granted' = [granted EXCEPT ![id] =
                   (IF r.resetAt = grantedWindow[id] THEN granted[id] ELSE 0)
                   + (IF r.allowed THEN 1 ELSE 0)]
  /\ UNCHANGED now

\* Date.now() moves on.
Tick ==
  /\ now < MaxTicks * TickMs
  /\ now' = now + TickMs
  /\ UNCHANGED <<rateLimitStore, lastReturn, granted, grantedWindow>>
  /\ UNCHANGED <<pageVars, serverVars, rankVars, smVars>>

\* ------------------------------------------------------------------------
\* Values of the tap-context attempt
\* ------------------------------------------------------------------------
\* Strings that are compared by content are sequences of words.
NoName == << >>
FerryBuilding == <<"Ferry", "Building">>

\* String.prototype.toLowerCase on one word.
LowerWord(w) ==
  CASE w = "Ferry" -> "ferry"
    [] w = "FERRY" -> "ferry"
    [] w = "Building" -> "building"
    [] w = "Cafe" -> "cafe"
    [] OTHER -> w

toLowerCase(s) == [i \in 1..Len(s) |-> LowerWord(s[i])]

\* a.includes(b) on word sequences: b occurs in a as a run of words.
includes(a, b) ==
  \E i \in 0..(Len(a) - Len(b)) : \A j \in 1..Len(b) : a[i + j] = b[j]

\* A latitude or longitude of the request body: absent (undefined), the
\* number 0, a non-zero number, or a non-empty string.
CoordKinds == {"absent", "zero", "num", "str"}
Truthy(k) == k \in {"num", "str"}
IsNumber(k) == k \in {"zero", "num"}

\* The vision hint: none (null), or name / type / description, each possibly
\* empty.
NoHint == [some |-> FALSE, name |-> NoName, type |-> "", description |-> ""]
Hints ==
  [some : {TRUE}, name : {NoName, FerryBuilding}, type : {"", "cafe"},
   description : {"", "seen"}]

\* Places returned by the place-search collaborator.  dist is the Haversine
\* distance from the device in metres, bearing the bearing from the device in
\* degrees, rating10 ten times the rating (0: none), geom whether the place
\* carries geometry.location.
CandidatePool ==
  { [id |-> 1, name |-> <<"Ferry", "Building">>, dist |-> 50, bearing |-> 0,
     types |-> {"tourist_attraction"}, rating10 |-> 46, geom |-> TRUE],
    [id |-> 2, name |-> <<"FERRY", "Building", "Cafe">>, dist |-> 120,
     bearing |-> 40, types |-> {"cafe"}, rating10 |-> 0, geom |-> TRUE],
    [id |-> 3, name |-> <<"Ferry", "Building">>, dist |-> 2500, bearing |-> 100,
     types |-> {"tourist_attraction"}, rating10 |-> 40, geom |-> TRUE],
    [id |-> 4, name |-> <<"Cafe">>, dist |-> 140, bearing |-> 170,
     types |-> {"cafe"}, rating10 |-> 30, geom |-> TRUE],
    [id |-> 5, name |-> <<"Pier">>, dist |-> 10, bearing |-> 0,
     types |-> {"establishment"}, rating10 |-> 0, geom |-> FALSE] }

MaxResults == 2

\* The responses of a search: up to MaxResults different places, in any order.
ResultLists ==
  UNION {{l \in [1..n -> CandidatePool] :
            \A i, j \in 1..n : l[i] = l[j] => i = j} : n \in 0..MaxResults}

CandById(i) == CHOOSE c \in CandidatePool : c.id = i

\* ------------------------------------------------------------------------
\* Strategy A scoring (text search)
\* ------------------------------------------------------------------------
TEXT_SEARCH_RADIUS == 2000

Min(a, b) == IF a < b THEN a ELSE b
Max(a, b) == IF a > b THEN a ELSE b
Abs(a) == IF a < 0 THEN -a ELSE a

\* A name score that compares the names as written.
NameScoreCaseSensitive(visionName, placeName) ==
  LET overlap == Cardinality({i \in 1..Len(visionName) :
                    \E j \in 1..Len(placeName) : placeName[j] = visionName[i]})
  IN IF visionName = NoName THEN 0
     ELSE IF placeName = visionName THEN 420
     ELSE IF includes(placeName, visionName)
             \/ includes(visionName, placeName) THEN 294
     ELSE (420 * overlap) \div Max(Len(visionName), Len(placeName))

\* nameScore times 420: 1.0 on equality ignoring case, 0.7 on containment
\* either way, else the word overlap over the longer word count.
NameScore420(visionName, placeName) ==
  LET nameLower == toLowerCase(placeName)
      visionNameLower == toLowerCase(visionName)
      overlap == Cardinality({i \in 1..Len(visionNameLower) :
                    \E j \in 1..Len(nameLower) :
                       nameLower[j] = visionNameLower[i]})
  IN IF visionNameLower = NoName THEN 0
     ELSE IF nameLower = visionNameLower THEN 420
     ELSE IF includes(nameLower, visionNameLower)
             \/ includes(visionNameLower, nameLower) THEN 294
     ELSE (420 * overlap) \div Max(Len(visionNameLower), Len(nameLower))

\* score times 60000: nameScore * 0.7 + (1 - min(distance / 2000, 1)) * 0.3
TextScore60000(visionName, c) ==
  100 * NameScore420(visionName, c.name)
    + (18000 - 9 * Min(c.dist, TEXT_SEARCH_RADIUS))

\* .map(...).filter(item !== null): places without geometry are dropped.
WithGeometry(results) == SelectSeq(results, LAMBDA c : c.geom)

\* matches[0] after the stable descending sort: the first place with the
\* highest score (0 when there is none).
RECURSIVE FirstBestText(_, _, _, _)
FirstBestText(seq, visionName, i, best) ==
  IF i > Len(seq) THEN best
  ELSE FirstBestText(seq, visionName, i + 1,
         IF best = 0
            \/ TextScore60000(visionName, seq[i]) > TextScore60000(visionName, seq[best])
           THEN i ELSE best)

\* An attempt that takes the first place listed, whatever its score.
TextAcceptFirstListed(visionName, results, coordsNumeric) ==
  LET matches == WithGeometry(results)
  IN IF Len(matches) > 0 /\ coordsNumeric /\ matches[1].dist < TEXT_SEARCH_RADIUS
       THEN matches[1].id ELSE 0

\* An attempt that takes the best match however far away it is.
TextAcceptAnyDistance(visionName, results, coordsNumeric) ==
  LET matches == WithGeometry(results)
      b == FirstBestText(matches, visionName, 1, 0)
  IN IF b # 0 /\ coordsNumeric THEN matches[b].id ELSE 0

\* The place one text-search response makes the attempt accept (its id), or 0.
TextAccept(visionName, results, coordsNumeric) ==
  LET matches == WithGeometry(results)
      b == FirstBestText(matches, visionName, 1, 0)
  IN IF b # 0 /\ coordsNumeric /\ matches[b].dist < TEXT_SEARCH_RADIUS
       THEN matches[b].id ELSE 0

\* ------------------------------------------------------------------------
\* Strategy B scoring (directional nearby search)
\* ------------------------------------------------------------------------
NEARBY_SEARCH_RADIUS == 150

\* Normalised tap x in percent.
TapXs == {0, 50, 100}

\* atan2(direction.x, direction.z) in whole degrees, for direction.x =
\* sin((tapX - 0.5) * 2 * 30 deg) * 0.1 and direction.z = 0.95.
TapBearing(tapX) ==
  CASE tapX = 0 -> -3
    [] tapX = 50 -> 0
    [] tapX = 100 -> 3

\* t.includes(type) || type.includes(t) on type tags (whole tags).
TypeMatch(hint, c) ==
  /\ hint.some /\ hint.type # ""
  /\ \E t \in c.types : t = hint.type

\* The score as a fraction num / den:
\* 1 / (1 + distance / 50) + 0.5 * directionScore + (0.3 if the type matches)
\* with directionScore = 1 - bearingDiff / 45 when bearingDiff < 45, else 0.
\* Distances of the pool are whole tens of metres; the fraction is written
\* over 90 * (5 + distance / 10).
NearbyNum(hint, tapX, c) ==
  LET bearingDiff == Abs(c.bearing - TapBearing(tapX))
      d10 == c.dist \div 10
  IN 450 + (IF bearingDiff < 45 THEN (45 - bearingDiff) * (5 + d10) ELSE 0)
         + (IF TypeMatch(hint, c) THEN 27 * (5 + d10) ELSE 0)
NearbyDen(c) == 90 * (5 + c.dist \div 10)

RECURSIVE FirstBestNearby(_, _, _, _, _)
FirstBestNearby(seq, hint, tapX, i, best) ==
  IF i > Len(seq) THEN best
  ELSE FirstBestNearby(seq, hint, tapX, i + 1,
         IF best = 0
            \/ NearbyNum(hint, tapX, seq[i]) * NearbyDen(seq[best])
                 > NearbyNum(hint, tapX, seq[best]) * NearbyDen(seq[i])
           THEN i ELSE best)

\* An attempt that takes the best-scored place of the response as it is.
NearbyAcceptTopAlways(hint, tapX, results, coordsNumeric) ==
  LET scored == WithGeometry(results)
      b == FirstBestNearby(scored, hint, tapX, 1, 0)
  IN IF b # 0 /\ coordsNumeric THEN scored[b].id ELSE 0

\* The place the nearby-search response makes the attempt accept, or 0:
\* bestMatch.distance < searchRadius && bestMatch.score > 0.2
NearbyAccept(hint, tapX, results, coordsNumeric) ==
  LET scored == WithGeometry(results)
      b == FirstBestNearby(scored, hint, tapX, 1, 0)
  IN IF b # 0 /\ coordsNumeric
        /\ scored[b].dist < NEARBY_SEARCH_RADIUS
        /\ 5 * NearbyNum(hint, tapX, scored[b]) > NearbyDen(scored[b])
       THEN scored[b].id ELSE 0

\* ------------------------------------------------------------------------
\* geo-context ranking
\* ------------------------------------------------------------------------
\* Confidences are scaled by 90000.
Conf(hundredths) == 900 * hundredths

\* distanceScore * 0.4 + ratingScore * 0.3 + directionMatch * 0.3
GeoConfidence(tapX, c) ==
  LET bearingDiff == Abs(c.bearing - TapBearing(tapX)) IN
  36 * Max(300, 1000 - c.dist)
    + (IF c.rating10 # 0 THEN 540 * c.rating10 ELSE 18900)
    + (27000 - 300 * Min(bearingDiff, 90))

RECURSIVE FirstBestGeo(_, _, _, _)
FirstBestGeo(seq, tapX, i, best) ==
  IF i > Len(seq) THEN best
  ELSE FirstBestGeo(seq, tapX, i + 1,
         IF best = 0 \/ GeoConfidence(tapX, seq[i]) > GeoConfidence(tapX, seq[best])
           THEN i ELSE best)

\* places[0] of the geo-context response (its id), or 0 for an empty list.
GeoBestPlace(tapX, results) ==
  LET ranked == WithGeometry(results)
      b == FirstBestGeo(ranked, tapX, 1, 0)
  IN IF b = 0 THEN 0 ELSE ranked[b].id

\* ------------------------------------------------------------------------
\* POST /api/tap-context
\* ------------------------------------------------------------------------
MaxRequests == 2

BodyKinds == {"valid", "unparsable", "incomplete", "toolarge"}

\* A body that fails parsing or validation is rejected before its
\* coordinates are looked at.  Latitude and longitude are treated alike by
\* the handler: at most one of them is other than a non-zero number, or both
\* are absent.
Requests ==
  {r \in [client : {"ip1"}, body : {"valid"}, lat : CoordKinds,
           lon : CoordKinds, tapX : TapXs] :
     r.lat = "num" \/ r.lon = "num" \/ (r.lat = "absent" /\ r.lon = "absent")}
  \cup [client : {"ip1"}, body : BodyKinds \ {"valid"}, lat : {"absent"},
        lon : {"absent"}, tapX : {50}]

NoRequest == [client |-> "ip1", body |-> "valid", lat |-> "absent",
              lon |-> "absent", tapX |-> 50]

NoResult == [status |-> 0, kind |-> "none", title |-> NoName, subtitle |-> "",
             confidence |-> 0, error |-> "", resetAt |-> 0]

Json(status, kind, title, subtitle, confidence) ==
  [status |-> status, kind |-> kind, title |-> title, subtitle |-> subtitle,
   confidence |-> confidence, error |-> "", resetAt |-> 0]

JsonError(status, kind, error) ==
  [status |-> status, kind |-> kind, title |-> NoName, subtitle |-> "",
   confidence |-> 0, error |-> error, resetAt |-> 0]

\* The 429 response, with the X-RateLimit-Reset header.
Throttled(rl) ==
  [JsonError(429, "throttled", "Rate limit exceeded") EXCEPT !.resetAt = rl.resetAt]

\* An outer catch that passes the exception's message on.
OuterCatchLeaks(message) == JsonError(500, "failed", message)

\* catch (error) of POST: the generic body.
OuterCatch(message) == JsonError(500, "failed", "Context lookup failed")

\* visionResult.type with underscores replaced and words capitalised, or
\* 'Location'.
FormattedType(hint) == IF hint.type # "" THEN hint.type ELSE "Location"

\* A confidence taken from the accepted candidate's composite score.
MergedConfidenceFromScore(hint, c) ==
  IF hint.name # NoName THEN (3 * TextScore60000(hint.name, c)) \div 2 ELSE Conf(50)

\* confidence: 0.9 of the merged result.
MergedConfidence(hint, c) == Conf(90)

\* The merged result of vision hint and place details.
Merged(hint, c) ==
  Json(200, "merged",
       IF hint.some /\ hint.name # NoName THEN hint.name
       ELSE IF c.name # NoName THEN c.name ELSE <<"Building">>,
       IF hint.some /\ hint.type # "" THEN hint.type ELSE "place type",
       MergedConfidence(hint, c))

\* The vision-only result.
VisionOnly(hint) ==
  Json(200, "visionOnly",
       IF hint.name # NoName THEN hint.name ELSE <<"Building">>,
       FormattedType(hint), Conf(70))

\* A confidence that is the same for every place.
NearbyConfidenceFixed(tapX, c) == Conf(80)

\* confidence: bestPlace.confidence || 0.8
NearbyConfidence(tapX, c) ==
  IF GeoConfidence(tapX, c) # 0 THEN GeoConfidence(tapX, c) ELSE Conf(80)

\* The result built from the first place of the geo-context response.
NearbyPlace(hint, tapX, c) ==
  Json(200, "nearby",
       IF hint.some /\ hint.name # NoName THEN hint.name
       ELSE IF c.name # NoName THEN c.name ELSE <<"Unknown", "Place">>,
       IF hint.some /\ hint.type # "" THEN hint.type
       ELSE IF c.types # {} THEN "place type" ELSE "Location",
       NearbyConfidence(tapX, c))

\* A subtitle that always gives the tap position.
MockSubtitleTapped(subtitle) == "tap coordinates"

\* subtitle || `Tapped at (x%, y%)` of the final fallback.
MockSubtitle(subtitle) == IF subtitle # "" THEN subtitle ELSE "tap coordinates"

\* A final fallback that does not look at the key.
FinalFallbackNoKeyCheck(r, key) ==
  IF ~Truthy(r.lat) \/ ~Truthy(r.lon)
    THEN [thrown |-> "",
          result |-> Json(200, "fallback", <<"Location", "Required">>,
                          MockSubtitle("enable location permissions"), Conf(30))]
  ELSE IF r.lat = "str" \/ r.lon = "str"
    THEN [thrown |-> "toFixed is not a function",
          result |-> OuterCatch("toFixed is not a function")]
  ELSE [thrown |-> "",
        result |-> Json(200, "fallback", <<"No", "Information", "Found">>,
                        MockSubtitle("location coordinates"), Conf(30))]

\* The final fallback: the title and subtitle chosen from location and key.
\* latitude.toFixed throws on a string, which the outer catch turns into the
\* generic error.
FinalFallback(r, key) ==
  IF ~Truthy(r.lat) \/ ~Truthy(r.lon)
    THEN [thrown |-> "",
          result |-> Json(200, "fallback", <<"Location", "Required">>,
                          MockSubtitle("enable location permissions"), Conf(30))]
  ELSE IF ~key
    THEN [thrown |-> "",
          result |-> Json(200, "fallback", <<"API", "Key", "Not", "Configured">>,
                          MockSubtitle("add GOOGLE_API_KEY"), Conf(30))]
  ELSE IF r.lat = "str" \/ r.lon = "str"
    THEN [thrown |-> "toFixed is not a function",
          result |-> OuterCatch("toFixed is not a function")]
  ELSE [thrown |-> "",
        result |-> Json(200, "fallback", <<"No", "Information", "Found">>,
                        MockSubtitle("location coordinates"), Conf(30))]

\* The last part of POST: the vision result if there is one, otherwise the
\* final fallback.
FinalOutcome(hint, r, key) ==
  IF hint.some THEN [thrown |-> "", result |-> VisionOnly(hint)]
  ELSE FinalFallback(r, key)

ServerInit ==
  /\ spc = "idle"
  /\ req = NoRequest
  /\ hasKey \in BOOLEAN
  /\ rateLimit = NoReturn
  /\ visionResult = NoHint
  /\ visionKind = "none"
  /\ placeId = 0
  /\ placeFrom = "none"
  /\ queryIdx = 0
  /\ detail = "none"
  /\ callLog = << >>
  /\ result = NoResult
  /\ thrown = ""
  /\ served = 0
  /\ geoPlace = 0
  /\ textSole = 0

\* The number of calls of one kind made by the attempt.
Calls(kind) == Cardinality({i \in 1..Len(callLog) : callLog[i] = kind})

Log(kind) == callLog' = Append(callLog, kind)

\* The attempt ends with a response.
Return(r) ==
  /\ result' = r
  /\ spc' = "done"

\* A request arrives at the route handler.
ReceiveRequest(r) ==
  /\ spc = "idle"
  /\ served < MaxRequests
  /\ req' = r
  /\ spc' = "start"
  /\ rateLimit' = NoReturn
  /\ visionResult' = NoHint
  /\ visionKind' = "none"
  /\ placeId' = 0
  /\ placeFrom' = "none"
  /\ queryIdx' = 0
  /\ detail' = "none"
  /\ callLog' = << >>
  /\ result' = NoResult
  /\ thrown' = ""
  /\ geoPlace' = 0
  /\ textSole' = 0
  /\ UNCHANGED <<hasKey, served, rateLimitStore, now, lastReturn, granted,
                 grantedWindow>>
  /\ UNCHANGED <<pageVars, rankVars, smVars>>

\* A handler that goes on after a denial.
DeniedNever(rl) == FALSE

\* if (!rateLimit.allowed)
Denied(rl) == ~rl.allowed

\* "Rate limiting": getClientIdentifier, checkRateLimit, and the 429 return.
RateLimiting ==
  /\ spc = "start"
  /\ CallCheckRateLimit(req.client)
  /\ rateLimit' = lastReturn'
  /\ IF Denied(rateLimit')
       THEN Return(Throttled(rateLimit'))
       ELSE /\ spc' = "parse"
            /\ UNCHANGED result
  /\ UNCHANGED <<geoPlace, textSole>>
  /\ UNCHANGED <<req, hasKey, visionResult, visionKind, placeId, placeFrom, detail,
                 queryIdx, callLog, thrown, served>>
  /\ UNCHANGED <<pageVars, rankVars, smVars>>

\* request.json(), the destructuring and the two validations.
ParseBody ==
  /\ spc = "parse"
  /\ CASE req.body = "unparsable" ->
            /\ thrown' = "Unexpected end of JSON input"
            /\ Return(OuterCatch(thrown'))
       [] req.body = "incomplete" ->
            /\ Return(JsonError(400, "invalid", "Image and tap coordinates required"))
            /\ UNCHANGED thrown
       [] req.body = "toolarge" ->
            /\ Return(JsonError(400, "invalid", "Frame too large"))
            /\ UNCHANGED thrown
       [] OTHER ->
            /\ spc' = "vision"
            /\ UNCHANGED <<result, thrown>>
  /\ UNCHANGED <<geoPlace, textSole>>
  /\ UNCHANGED <<req, hasKey, rateLimit, visionResult, visionKind, placeId,
                 placeFrom, detail, queryIdx, callLog, served, rateLimitStore, now,
                 lastReturn, granted, grantedWindow>>
  /\ UNCHANGED <<pageVars, rankVars, smVars>>

\* What the Gemini call can do.  "badjson": a {...} block that JSON.parse
\* rejects, after which name, type and description are pulled out by pattern.
VisionOutcomes == {"throw", "notok", "notext", "nobraces", "badjson", "json"}

\* visionResult after Step 1.  extracted: the fields the JSON or the patterns
\* give.
VisionResultOf(kind, extracted) ==
  IF kind \in {"json", "badjson"} THEN extracted ELSE NoHint

\* A handler that searches for places whether or not it has a location.
AfterVisionSearchesAnyway(hint) ==
  IF ~hasKey THEN "geo"
  ELSE IF hint.some /\ hint.name # NoName THEN "searchA"
  ELSE "searchB"

\* Where the handler goes after Step 1 and Step 2, and (when it returns at
\* once) with what.
AfterVision(hint) ==
  IF Truthy(req.lat) /\ Truthy(req.lon)
    THEN IF ~hasKey THEN "geo"
         ELSE IF hint.some /\ hint.name # NoName THEN "searchA"
         ELSE "searchB"
    ELSE "final"

\* Step 1: the Gemini Vision call and the parsing of its answer.
VisionIdentify(outcome, extracted) ==
  /\ spc = "vision"
  /\ LET kind == IF hasKey THEN outcome ELSE "nokey"
         hint == VisionResultOf(kind, extracted)
         next == AfterVision(hint)
     IN /\ visionKind' = kind
        /\ visionResult' = hint
        /\ IF hasKey THEN Log("vision") ELSE UNCHANGED callLog
        /\ IF next = "final"
             THEN /\ thrown' = FinalOutcome(hint, req, hasKey).thrown
                  /\ Return(FinalOutcome(hint, req, hasKey).result)
                  /\ UNCHANGED queryIdx
             ELSE /\ spc' = next
                  /\ queryIdx' = IF next = "searchA" THEN 1 ELSE 0
                  /\ UNCHANGED <<result, thrown>>
  /\ UNCHANGED <<geoPlace, textSole>>
  /\ UNCHANGED <<req, hasKey, rateLimit, placeId, placeFrom, detail, served,
                 rateLimitStore, now, lastReturn, granted, grantedWindow>>
  /\ UNCHANGED <<pageVars, rankVars, smVars>>

SearchOutcomes == {"throw", "notok", "denied", "ok"}

\* A handler whose comment "Always try nearby places search" is taken at its
\* word: the nearby search follows the text search even after a match.
TextSearchThenAlwaysNearby(outcome, results) ==
  /\ spc = "searchA"
  /\ Log("text")
  /\ LET accepted == IF outcome = "ok" /\ Len(results) > 0
                       THEN TextAccept(visionResult.name, results,
                                       IsNumber(req.lat) /\ IsNumber(req.lon))
                       ELSE 0
         stop == outcome = "denied" \/ accepted # 0 \/ queryIdx = 3
     IN IF outcome = "throw"
          THEN /\ spc' = "geo"
               /\ UNCHANGED <<placeId, placeFrom, queryIdx>>
          ELSE /\ placeId' = accepted
               /\ placeFrom' = IF accepted # 0 THEN "text" ELSE "none"
               /\ queryIdx' = IF stop THEN queryIdx ELSE queryIdx + 1
               /\ spc' = IF ~stop THEN "searchA" ELSE "searchB"
  /\ textSole' = IF outcome = "ok" /\ Len(results) = 1 THEN results[1].id ELSE 0
  /\ UNCHANGED geoPlace
  /\ UNCHANGED <<req, hasKey, rateLimit, visionResult, visionKind, detail,
                 result, thrown, served, rateLimitStore, now, lastReturn,
                 granted, grantedWindow>>
  /\ UNCHANGED <<pageVars, rankVars, smVars>>

\* Strategy 1: one text-search query of the three.
TextSearch(outcome, results) ==
  /\ spc = "searchA"
  /\ Log("text")
  /\ LET accepted == IF outcome = "ok" /\ Len(results) > 0
                       THEN TextAccept(visionResult.name, results,
                                       IsNumber(req.lat) /\ IsNumber(req.lon))
                       ELSE 0
         stop == outcome = "denied" \/ accepted # 0 \/ queryIdx = 3
     IN IF outcome = "throw"
          THEN /\ spc' = "geo"
               /\ UNCHANGED <<placeId, placeFrom, queryIdx>>
          ELSE /\ placeId' = accepted
               /\ placeFrom' = IF accepted # 0 THEN "text" ELSE "none"
               /\ queryIdx' = IF stop THEN queryIdx ELSE queryIdx + 1
               /\ spc' = IF ~stop THEN "searchA"
                         ELSE IF accepted # 0 THEN "details" ELSE "searchB"
  /\ textSole' = IF outcome = "ok" /\ Len(results) = 1 THEN results[1].id ELSE 0
  /\ UNCHANGED geoPlace
  /\ UNCHANGED <<req, hasKey, rateLimit, visionResult, visionKind, detail,
                 result, thrown, served, rateLimitStore, now, lastReturn,
                 granted, grantedWindow>>
  /\ UNCHANGED <<pageVars, rankVars, smVars>>

\* Strategy 2: the nearby search, then (no place accepted) the vision-only
\* return.
NearbySearch(outcome, results) ==
  /\ spc = "searchB"
  /\ Log("nearby")
  /\ LET accepted == IF outcome = "ok" /\ Len(results) > 0
                       THEN NearbyAccept(visionResult, req.tapX, results,
                                         IsNumber(req.lat) /\ IsNumber(req.lon))
                       ELSE 0
     IN IF outcome = "throw"
          THEN /\ spc' = "geo"
               /\ UNCHANGED <<placeId, placeFrom, result>>
          ELSE /\ placeId' = accepted
               /\ placeFrom' = IF accepted # 0 THEN "nearby" ELSE "none"
               /\ IF accepted # 0
                    THEN spc' = "details" /\ UNCHANGED result
                    ELSE IF visionResult.some
                      THEN Return(VisionOnly(visionResult))
                      ELSE spc' = "geo" /\ UNCHANGED result
  /\ UNCHANGED <<geoPlace, textSole>>
  /\ UNCHANGED <<req, hasKey, rateLimit, visionResult, visionKind, queryIdx,
                 detail, thrown, served, rateLimitStore, now, lastReturn,
                 granted, grantedWindow>>
  /\ UNCHANGED <<pageVars, rankVars, smVars>>

DetailOutcomes == {"throw", "notok", "noresult", "record"}

\* A handler that asks for the details a second time when the first answer
\* gave no record.
PlaceDetailsRetriesOnce(outcome) ==
  /\ spc = "details"
  /\ Log("details")
  /\ detail' = outcome
  /\ IF outcome = "record"
       THEN Return(Merged(visionResult, CandById(placeId)))
       ELSE /\ spc' = IF detail = "none" THEN "details" ELSE "geo"
            /\ UNCHANGED result
  /\ UNCHANGED <<geoPlace, textSole>>
  /\ UNCHANGED <<req, hasKey, rateLimit, visionResult, visionKind, placeId,
                 placeFrom, queryIdx, thrown, served, rateLimitStore, now,
                 lastReturn, granted, grantedWindow>>
  /\ UNCHANGED <<pageVars, rankVars, smVars>>

\* Strategy 3: the details of the accepted place.
PlaceDetails(outcome) ==
  /\ spc = "details"
  /\ Log("details")
  /\ detail' = outcome
  /\ IF outcome = "record"
       THEN Return(Merged(visionResult, CandById(placeId)))
       ELSE spc' = "geo" /\ UNCHANGED result
  /\ UNCHANGED <<geoPlace, textSole>>
  /\ UNCHANGED <<req, hasKey, rateLimit, visionResult, visionKind, placeId,
                 placeFrom, queryIdx, thrown, served, rateLimitStore, now,
                 lastReturn, granted, grantedWindow>>
  /\ UNCHANGED <<pageVars, rankVars, smVars>>

\* The fallback call of the geo-context handler, up to its Places request:
\* its own rate limiting, its validation and its key check.  failsBefore: the
\* import or the construction of the request throws.
GeoContext(failsBefore) ==
  /\ spc = "geo"
  /\ IF failsBefore
       THEN /\ thrown' = FinalOutcome(visionResult, req, hasKey).thrown
            /\ Return(FinalOutcome(visionResult, req, hasKey).result)
            /\ UNCHANGED <<callLog, rateLimitStore, lastReturn, granted,
                           grantedWindow>>
       ELSE /\ Log("geo")
            /\ CallCheckRateLimit(req.client)
            /\ IF Denied(lastReturn') \/ ~(IsNumber(req.lat) /\ IsNumber(req.lon))
                 THEN \* 429 or 400: not ok
                      /\ thrown' = FinalOutcome(visionResult, req, hasKey).thrown
                      /\ Return(FinalOutcome(visionResult, req, hasKey).result)
                 ELSE IF ~hasKey
                   THEN \* { places: [] }
                        /\ thrown' = FinalOutcome(visionResult, req, hasKey).thrown
                        /\ Return(FinalOutcome(visionResult, req, hasKey).result)
                   ELSE /\ spc' = "geoFetch"
                        /\ UNCHANGED <<result, thrown>>
  /\ UNCHANGED <<geoPlace, textSole>>
  /\ UNCHANGED <<req, hasKey, rateLimit, visionResult, visionKind, placeId,
                 placeFrom, detail, queryIdx, served, now>>
  /\ UNCHANGED <<pageVars, rankVars, smVars>>

\* The Places request of geo-context, its ranking, and what tap-context makes
\* of the response.
GeoContextFetch(outcome, results) ==
  /\ spc = "geoFetch"
  /\ Log("geoNearby")
  /\ LET best == IF outcome = "ok" THEN GeoBestPlace(req.tapX, results) ELSE 0
     IN IF best # 0
          THEN /\ Return(NearbyPlace(visionResult, req.tapX, CandById(best)))
               /\ UNCHANGED thrown
          ELSE /\ thrown' = FinalOutcome(visionResult, req, hasKey).thrown
               /\ Return(FinalOutcome(visionResult, req, hasKey).result)
  /\ geoPlace' = IF outcome = "ok" THEN GeoBestPlace(req.tapX, results) ELSE 0
  /\ UNCHANGED textSole
  /\ UNCHANGED <<req, hasKey, rateLimit, visionResult, visionKind, placeId,
                 placeFrom, detail, queryIdx, served, rateLimitStore, now, lastReturn,
                 granted, grantedWindow>>
  /\ UNCHANGED <<pageVars, rankVars, smVars>>

\* The response has been sent and the locals of this execution are gone;
\* the handler is ready for the next request.
Respond ==
  /\ spc = "done"
  /\ spc' = "idle"
  /\ served' = served + 1
  /\ req' = NoRequest
  /\ rateLimit' = NoReturn
  /\ visionResult' = NoHint
  /\ visionKind' = "none"
  /\ placeId' = 0
  /\ placeFrom' = "none"
  /\ queryIdx' = 0
  /\ detail' = "none"
  /\ callLog' = << >>
  /\ result' = NoResult
  /\ thrown' = ""
  /\ geoPlace' = 0
  /\ textSole' = 0
  /\ UNCHANGED <<hasKey, rateLimitStore, now, lastReturn, granted, grantedWindow>>
  /\ UNCHANGED <<pageVars, rankVars, smVars>>


\* ------------------------------------------------------------------------
\* Candidate ranking on its own: one search response, scored in two orders
\* ------------------------------------------------------------------------
\* The pool, with a second place at the coordinates of place 1 that has the
\* same name and tags.
RankPool ==
  CandidatePool \cup
  { [id |-> 6, name |-> <<"Ferry", "Building">>, dist |-> 50, bearing |-> 0,
     types |-> {"tourist_attraction"}, rating10 |-> 46, geom |-> TRUE] }

RankLists ==
  UNION {{l \in [1..n -> RankPool] :
            \A i, j \in 1..n : l[i] = l[j] => i = j} : n \in 0..MaxResults}

\* The same places in every order.
Reorderings(seq) ==
  {[i \in 1..Len(seq) |-> seq[p[i]]] :
     p \in {q \in [1..Len(seq) -> 1..Len(seq)] :
              \A i, j \in 1..Len(seq) : q[i] = q[j] => i = j}}

RankIdle ==
  /\ rpc = "idle"
  /\ rankHint = NoHint
  /\ rankTapX = 50
  /\ rankResults = << >>
  /\ rankOrder = << >>
  /\ rankPicked = [strategy |-> "none", first |-> 0, second |-> 0]

RankInit ==
  /\ rpc = "drawn"
  /\ rankHint \in Hints \cup {NoHint}
  /\ rankTapX \in TapXs
  /\ rankResults \in RankLists
  /\ rankOrder \in Reorderings(rankResults)
  /\ rankPicked = [strategy |-> "none", first |-> 0, second |-> 0]

\* Strategy 1 applied to the response in both orders.
RankByText ==
  /\ rpc = "drawn"
  /\ rankHint.some /\ rankHint.name # NoName
  /\ rpc' = "ranked"
  /\ rankPicked' = [strategy |-> "text",
                    first |-> TextAccept(rankHint.name, rankResults, TRUE),
                    second |-> TextAccept(rankHint.name, rankOrder, TRUE)]
  /\ UNCHANGED <<rankHint, rankTapX, rankResults, rankOrder>>
  /\ UNCHANGED <<pageVars, rlVars, serverVars, smVars>>

\* Strategy 2 applied to the response in both orders.
RankByNearby ==
  /\ rpc = "drawn"
  /\ rpc' = "ranked"
  /\ rankPicked' = [strategy |-> "nearby",
                    first |-> NearbyAccept(rankHint, rankTapX, rankResults, TRUE),
                    second |-> NearbyAccept(rankHint, rankTapX, rankOrder, TRUE)]
  /\ UNCHANGED <<rankHint, rankTapX, rankResults, rankOrder>>
  /\ UNCHANGED <<pageVars, rlVars, serverVars, smVars>>

RankNext ==
  \/ RankByText
  \/ RankByNearby

\* ------------------------------------------------------------------------
\* Gesture state machine (lib/gestureStateMachine) and its confidence
\* smoother (lib/confidenceSmoothing)
\* ------------------------------------------------------------------------
\* Strengths and thresholds are in hundredths; smoothed values are in
\* hundredths times 16, which keeps five halvings exact.
T_enter == 30
T_lock == 70
T_stability == 300
T_candidate_timeout == 500
T_display_timeout == 2000
T_fade == 200

MaxIntents == 2
MaxObservers == 2

\* The clock moves in steps of this many ms.
StepMs == T_fade \div 2

\* The signals: a fingertip or none, a direction or none, a strength.
Signals ==
  [position : BOOLEAN, direction : {"fwd", "side", "none"}, strength : {20, 80}]

NoSignal == [position |-> FALSE, direction |-> "none", strength |-> 0]

\* ConfidenceSmoother
maxHistorySize == 5

\* The number that is not a number.  Math.min and Math.max return it when an
\* argument is it, and so does every sum and product it enters.
NaN == -1000000

\* history after smooth(confidence): clamp, push, shift.
Pushed(h, v) ==
  LET a == Append(h, IF v = NaN THEN NaN ELSE 16 * Max(0, Min(100, v)))
  IN IF Len(a) > maxHistorySize THEN Tail(a) ELSE a

RECURSIVE EmaFrom(_, _, _)
EmaFrom(h, i, ema) ==
  IF i > Len(h) THEN ema
  ELSE EmaFrom(h, i + 1,
               IF h[i] = NaN \/ ema = NaN THEN NaN ELSE (h[i] + ema) \div 2)

\* alpha = 0.5
exponentialMovingAverage(h) ==
  IF Len(h) = 0 THEN 0 ELSE EmaFrom(h, 2, h[1])

\* A signal that qualifies without a direction.
QualifiesWithoutDirection(sig) ==
  sig.position /\ sig.strength >= T_enter

\* A qualifying signal: position and direction present, strength >= T_enter.
Qualifies(sig) ==
  sig.position /\ sig.direction # "none" /\ sig.strength >= T_enter

\* A machine to which no change of direction is significant.
SignificantChangeNever(dir, last) == FALSE

\* The change against lastDirection exceeds the threshold.
SignificantChange(dir, last) == last # "none" /\ dir # last

\* Timeouts of a machine whose DISPLAY never times out.
TimedOutDisplayStays(s, since) ==
  CASE s = "CANDIDATE" /\ since >= T_candidate_timeout -> "RELEASE"
    [] s = "RELEASE" /\ since >= T_fade -> "IDLE"
    [] OTHER -> s

\* Timeouts alone: the state the clock moves s to.
TimedOut(s, since) ==
  CASE s = "CANDIDATE" /\ since >= T_candidate_timeout -> "RELEASE"
    [] s = "DISPLAY" /\ since >= T_display_timeout -> "RELEASE"
    [] s = "RELEASE" /\ since >= T_fade -> "IDLE"
    [] OTHER -> s

\* A machine in which a new gesture takes RELEASE straight to CANDIDATE.
TransitionReentersFromRelease(s, q, stab, conf, since) ==
  CASE s = "IDLE" /\ q -> "CANDIDATE"
    [] s = "RELEASE" /\ q -> "CANDIDATE"
    [] s = "CANDIDATE" /\ q /\ stab >= T_stability /\ conf >= 16 * T_lock
         -> "INTENT_LOCKED"
    [] s \in {"CANDIDATE", "DISPLAY"} /\ q -> s
    [] OTHER -> TimedOut(s, since)

\* A machine that locks on stability alone, whatever the smoothed confidence.
TransitionIgnoresConfidence(s, q, stab, conf, since) ==
  CASE s = "IDLE" /\ q -> "CANDIDATE"
    [] s = "CANDIDATE" /\ q /\ stab >= T_stability -> "INTENT_LOCKED"
    [] s \in {"CANDIDATE", "DISPLAY"} /\ q -> s
    [] OTHER -> TimedOut(s, since)

\* The state update moves s to: q the signal qualifies, stab and conf the
\* stability and the smoothed confidence after this signal, since the time
\* since the last qualifying signal or state change.
Transition(s, q, stab, conf, since) ==
  CASE s = "IDLE" /\ q -> "CANDIDATE"
    [] s = "CANDIDATE" /\ q /\ stab >= T_stability /\ conf >= 16 * T_lock
         -> "INTENT_LOCKED"
    [] s \in {"CANDIDATE", "DISPLAY"} /\ q -> s
    [] OTHER -> TimedOut(s, since)

\* A caller that identifies again on a qualifying signal in DISPLAY.
TriggersIdentificationOnSignal(from, to, q) ==
  (from # to /\ to = "INTENT_LOCKED") \/ (from = "DISPLAY" /\ q)

\* The state change on which the engine is invoked.
TriggersIdentification(from, to, q) == from # to /\ to = "INTENT_LOCKED"

SMInit ==
  /\ state = "IDLE"
  /\ ctxConfidence = 0
  /\ stabilityDuration = 0
  /\ lastDirection = "none"
  /\ sinceTimestamp = 0
  /\ history = << >>
  /\ engineCalls = 0
  /\ lockEntries = 0
  /\ prevState = "IDLE"
  /\ lastOp = "none"
  /\ lastSignal = NoSignal
  /\ ctxBefore = [stability |-> 0, direction |-> "none", since |-> 0, samples |-> 0]
  /\ signalsEnded = FALSE
  /\ observers = 0
  /\ notifications = << >>

\* The callbacks an operation of a machine with n observers calls when it
\* takes the state from one value to another: each registered callback once,
\* in the order of registration, with the new state.
NotifyFirstObserverOnly(n, from, to) ==
  IF from # to /\ n > 0 THEN << [observer |-> 1, newState |-> to] >> ELSE << >>

Notify(n, from, to) ==
  IF from # to THEN [i \in 1..n |-> [observer |-> i, newState |-> to]] ELSE << >>

\* What every operation of the machine records.
Moved(op, sig, to, q) ==
  /\ state' = to
  /\ prevState' = state
  /\ lastOp' = op
  /\ lastSignal' = sig
  /\ ctxBefore' = [stability |-> stabilityDuration, direction |-> lastDirection,
                   since |-> sinceTimestamp, samples |-> Len(history)]
  /\ signalsEnded' = signalsEnded
  /\ observers' = observers
  /\ notifications' = Notify(observers, state, to)
  /\ lockEntries' = lockEntries + (IF state # to /\ to = "INTENT_LOCKED" THEN 1 ELSE 0)
  /\ engineCalls' = engineCalls + (IF TriggersIdentification(state, to, q) THEN 1 ELSE 0)

\* update(fingertip, direction, confidence).  The microtask queued on
\* entering INTENT_LOCKED runs before the caller's next update; no new
\* gesture is started once MaxIntents intents have been confirmed.  The
\* strength is fed through the smoother on every update; stabilityDuration
\* is kept up to T_stability, the only value it is compared with.
update(sig) ==
  /\ state # "INTENT_LOCKED"
  /\ signalsEnded => ~ Qualifies(sig)
  /\ state = "IDLE" => lockEntries < MaxIntents
  /\ LET q == Qualifies(sig)
         h == Pushed(history, sig.strength)
         conf == exponentialMovingAverage(h)
         stab == IF state = "CANDIDATE" /\ q
                   THEN IF SignificantChange(sig.direction, lastDirection) THEN 0
                        ELSE Min(stabilityDuration + sinceTimestamp, T_stability)
                   ELSE IF state = "IDLE" /\ q THEN 0
                   ELSE stabilityDuration
         to == Transition(state, q, stab, conf, sinceTimestamp)
     IN /\ history' = h
        /\ ctxConfidence' = conf
        /\ stabilityDuration' = stab
        /\ lastDirection' =
             IF q /\ (state = "IDLE"
                      \/ (state = "CANDIDATE"
                          /\ SignificantChange(sig.direction, lastDirection)))
               THEN sig.direction ELSE lastDirection
        /\ sinceTimestamp' = IF q \/ to # state THEN 0 ELSE sinceTimestamp
        /\ Moved("update", sig, to, q)
  /\ UNCHANGED <<pageVars, rlVars, serverVars, rankVars, libVars>>

\* The timeouts re-evaluated against the clock without a new signal.
checkTimeouts ==
  /\ TimedOut(state, sinceTimestamp) # state
  /\ sinceTimestamp' = 0
  /\ Moved("timer", NoSignal, TimedOut(state, sinceTimestamp), FALSE)
  /\ UNCHANGED <<ctxConfidence, stabilityDuration, lastDirection, history>>
  /\ UNCHANGED <<pageVars, rlVars, serverVars, rankVars, libVars>>

\* INTENT_LOCKED -> DISPLAY, queued as a microtask on entering INTENT_LOCKED.
enterDisplay ==
  /\ state = "INTENT_LOCKED"
  /\ sinceTimestamp' = 0
  /\ Moved("microtask", NoSignal, "DISPLAY", FALSE)
  /\ UNCHANGED <<ctxConfidence, stabilityDuration, lastDirection, history>>
  /\ UNCHANGED <<pageVars, rlVars, serverVars, rankVars, libVars>>

\* A reset() that forces IDLE but keeps the smoother's history and the
\* stability duration.
resetKeepsHistory ==
  /\ lastOp # "reset"
  /\ ctxConfidence' = 0
  /\ lastDirection' = "none"
  /\ sinceTimestamp' = 0
  /\ Moved("reset", NoSignal, "IDLE", FALSE)
  /\ UNCHANGED <<stabilityDuration, history>>
  /\ UNCHANGED <<pageVars, rlVars, serverVars, rankVars, libVars>>

\* reset()
reset ==
  /\ lastOp # "reset"
  /\ ctxConfidence' = 0
  /\ stabilityDuration' = 0
  /\ lastDirection' = "none"
  /\ sinceTimestamp' = 0
  /\ history' = << >>
  /\ Moved("reset", NoSignal, "IDLE", FALSE)
  /\ UNCHANGED <<pageVars, rlVars, serverVars, rankVars, libVars>>

\* The largest value a state compares the time since context.timestamp with.
Horizon(s) ==
  CASE s = "CANDIDATE" -> T_candidate_timeout
    [] s = "DISPLAY" -> T_display_timeout
    [] s = "RELEASE" -> T_fade
    [] OTHER -> 0

\* Date.now() moves on; the microtask runs before any time passes.  The time
\* since context.timestamp is kept up to the horizon of the state.
Advance ==
  /\ state # "INTENT_LOCKED"
  /\ sinceTimestamp < Horizon(state)
  /\ sinceTimestamp' = Min(sinceTimestamp + StepMs, Horizon(state))
  /\ prevState' = state
  /\ lastOp' = "advance"
  /\ lastSignal' = NoSignal
  /\ ctxBefore' = [stability |-> stabilityDuration, direction |-> lastDirection,
                   since |-> sinceTimestamp, samples |-> Len(history)]
  /\ notifications' = << >>
  /\ UNCHANGED <<state, ctxConfidence, stabilityDuration, lastDirection, history,
                 engineCalls, lockEntries, signalsEnded, observers>>
  /\ UNCHANGED <<pageVars, rlVars, serverVars, rankVars, libVars>>

SMNext ==
  \/ \E sig \in Signals : update(sig)
  \/ checkTimeouts
  \/ enterDisplay
  \/ reset
  \/ Advance

\* The gesture ends: from now on every signal lacks a position or a
\* direction, or is weaker than T_enter.
SignalsEnd ==
  /\ ~ signalsEnded
  /\ signalsEnded' = TRUE
  /\ UNCHANGED <<state, ctxConfidence, stabilityDuration, lastDirection,
                 sinceTimestamp, history, engineCalls, lockEntries, prevState,
                 lastOp, lastSignal, ctxBefore, observers, notifications>>
  /\ UNCHANGED <<pageVars, rlVars, serverVars, rankVars, libVars>>

\* onStateChange(callback): one more observer; nobody is called.  Like
\* update, it is called by the caller's loop, after the microtask queued on
\* entering INTENT_LOCKED has run.
onStateChange ==
  /\ observers < MaxObservers
  /\ state # "INTENT_LOCKED"
  /\ observers' = observers + 1
  /\ notifications' = << >>
  /\ prevState' = state
  /\ lastOp' = "onStateChange"
  /\ lastSignal' = NoSignal
  /\ ctxBefore' = [stability |-> stabilityDuration, direction |-> lastDirection,
                   since |-> sinceTimestamp, samples |-> Len(history)]
  /\ UNCHANGED <<state, ctxConfidence, stabilityDuration, lastDirection,
                 sinceTimestamp, history, engineCalls, lockEntries, signalsEnded>>
  /\ UNCHANGED <<pageVars, rlVars, serverVars, rankVars, libVars>>

\* ------------------------------------------------------------------------
\* ConfidenceSmoother called on its own
\* ------------------------------------------------------------------------
MaxSmooth == 6

\* Nothing of the libraries has been called.
LibInit ==
  /\ smoothCalls = << >>
  /\ returned = 0
  /\ resetDiscarded = -1
  /\ libOp = "none"
  /\ vecA = [x |-> 0, y |-> 0, z |-> 0]
  /\ vecB = [x |-> 0, y |-> 0, z |-> 0]
  /\ vecResult = 0

\* smooth(confidence), confidence in hundredths.  A smoother receives at
\* most MaxSmooth values, those discarded by reset() included.
smooth(confidence) ==
  /\ Len(smoothCalls) + Max(resetDiscarded, 0) < MaxSmooth
  /\ history' = Pushed(history, confidence)
  /\ returned' = exponentialMovingAverage(history')
  /\ smoothCalls' = Append(smoothCalls, confidence)
  /\ libOp' = "smooth"
  /\ UNCHANGED <<resetDiscarded, vecA, vecB, vecResult>>
  /\ UNCHANGED <<state, ctxConfidence, stabilityDuration, lastDirection,
                 sinceTimestamp, engineCalls, lockEntries, prevState, lastOp,
                 lastSignal, ctxBefore, signalsEnded, observers, notifications>>
  /\ UNCHANGED <<pageVars, rlVars, serverVars, rankVars>>

\* getCurrent()
getCurrent ==
  /\ returned' = IF Len(history) = 0 THEN 0 ELSE exponentialMovingAverage(history)
  /\ libOp' = "getCurrent"
  /\ UNCHANGED <<history, smoothCalls, resetDiscarded, vecA, vecB, vecResult>>
  /\ UNCHANGED <<state, ctxConfidence, stabilityDuration, lastDirection,
                 sinceTimestamp, engineCalls, lockEntries, prevState, lastOp,
                 lastSignal, ctxBefore, signalsEnded, observers, notifications>>
  /\ UNCHANGED <<pageVars, rlVars, serverVars, rankVars>>

\* A reset() that keeps the newest value of the history.
smootherResetKeepsNewest ==
  /\ resetDiscarded = -1
  /\ history' = IF Len(history) = 0 THEN history ELSE << history[Len(history)] >>
  /\ smoothCalls' = << >>
  /\ resetDiscarded' = Len(smoothCalls)
  /\ libOp' = "reset"
  /\ UNCHANGED <<returned, vecA, vecB, vecResult>>
  /\ UNCHANGED <<state, ctxConfidence, stabilityDuration, lastDirection,
                 sinceTimestamp, engineCalls, lockEntries, prevState, lastOp,
                 lastSignal, ctxBefore, signalsEnded, observers, notifications>>
  /\ UNCHANGED <<pageVars, rlVars, serverVars, rankVars>>

\* ConfidenceSmoother.reset(); a smoother is reset once.
smootherReset ==
  /\ resetDiscarded = -1
  /\ history' = << >>
  /\ smoothCalls' = << >>
  /\ resetDiscarded' = Len(smoothCalls)
  /\ libOp' = "reset"
  /\ UNCHANGED <<returned, vecA, vecB, vecResult>>
  /\ UNCHANGED <<state, ctxConfidence, stabilityDuration, lastDirection,
                 sinceTimestamp, engineCalls, lockEntries, prevState, lastOp,
                 lastSignal, ctxBefore, signalsEnded, observers, notifications>>
  /\ UNCHANGED <<pageVars, rlVars, serverVars, rankVars>>

\* The values passed to smooth: below the range, its ends, inside, above,
\* and NaN.
NextSmoother ==
  \/ \E confidence \in {-50, 0, 30, 100, 150, NaN} : smooth(confidence)
  \/ getCurrent
  \/ smootherReset

\* ------------------------------------------------------------------------
\* Vector utilities (lib/vectorMath)
\* ------------------------------------------------------------------------
\* Components are integers; lengths are in hundredths, normalized components
\* and cosines in thousandths, angles in twelfths of pi.

\* Math.sqrt(n), in hundredths, rounded down.
Sqrt(n) ==
  CHOOSE r \in 0..400 : r * r <= 10000 * n /\ (r + 1) * (r + 1) > 10000 * n

\* Math.acos(c), c in thousandths: the multiple of pi/12 whose cosine is
\* nearest to c.
Acos(c) ==
  LET cos == [k \in 0..12 |->
                << 1000, 966, 866, 707, 500, 259, 0,
                   -259, -500, -707, -866, -966, -1000 >>[k + 1]]
  IN CHOOSE k \in 0..12 : \A j \in 0..12 : Abs(cos[k] - c) <= Abs(cos[j] - c)

normalize2D(v) ==
  LET length == Sqrt(v.x * v.x + v.y * v.y)
  IN IF length = 0 THEN [x |-> 0, y |-> 0]
     ELSE [x |-> (100000 * v.x) \div length, y |-> (100000 * v.y) \div length]

normalize3D(v) ==
  LET length == Sqrt(v.x * v.x + v.y * v.y + v.z * v.z)
  IN IF length = 0 THEN [x |-> 0, y |-> 0, z |-> 0]
     ELSE [x |-> (100000 * v.x) \div length,
           y |-> (100000 * v.y) \div length,
           z |-> (100000 * v.z) \div length]

\* An angleBetween3D without the test for a zero magnitude: 0 / 0 is NaN, and
\* so are the clamp and the arc cosine of it.
angleBetween3DUnguarded(a, b) ==
  LET dot == a.x * b.x + a.y * b.y + a.z * b.z
      magA == Sqrt(a.x * a.x + a.y * a.y + a.z * a.z)
      magB == Sqrt(b.x * b.x + b.y * b.y + b.z * b.z)
  IN IF magA * magB = 0 THEN NaN
     ELSE Acos(Max(-1000, Min(1000, (10000000 * dot) \div (magA * magB))))

angleBetween3D(a, b) ==
  LET dot == a.x * b.x + a.y * b.y + a.z * b.z
      magA == Sqrt(a.x * a.x + a.y * a.y + a.z * a.z)
      magB == Sqrt(b.x * b.x + b.y * b.y + b.z * b.z)
  IN IF magA = 0 \/ magB = 0 THEN 0
     ELSE Acos(Max(-1000, Min(1000, (10000000 * dot) \div (magA * magB))))

\* One call of a vector utility on the arguments; normalize2D takes the x
\* and y of the first.
CallVector(fn) ==
  /\ libOp = "none"
  /\ libOp' = fn
  /\ vecResult' =
       CASE fn = "normalize2D" -> normalize2D([x |-> vecA.x, y |-> vecA.y])
         [] fn = "normalize3D" -> normalize3D(vecA)
         [] fn = "angleBetween3D" -> angleBetween3D(vecA, vecB)
  /\ UNCHANGED <<smoothCalls, returned, resetDiscarded, vecA, vecB>>
  /\ UNCHANGED <<state, ctxConfidence, stabilityDuration, lastDirection,
                 sinceTimestamp, history, engineCalls, lockEntries, prevState,
                 lastOp, lastSignal, ctxBefore, signalsEnded, observers,
                 notifications>>
  /\ UNCHANGED <<pageVars, rlVars, serverVars, rankVars>>

\* ------------------------------------------------------------------------
\* Specifications
\* ------------------------------------------------------------------------
\* The store a running server can hold for the client when a request
\* arrives: no entry, or a window in which 59 or 60 requests were counted.
ServerStores ==
  {[c \in Clients |-> IF c = "ip1" THEN e ELSE NoEntry] :
     e \in {NoEntry} \cup
           [count : {RATE_LIMIT_MAX_REQUESTS - 1, RATE_LIMIT_MAX_REQUESTS},
            resetAt : {RATE_LIMIT_WINDOW_MS}]}

ServerRLInit ==
  /\ rateLimitStore \in ServerStores
  /\ now = 0
  /\ lastReturn = NoReturn
  /\ granted = [c \in Clients |-> rateLimitStore[c].count]
  /\ grantedWindow = [c \in Clients |-> rateLimitStore[c].resetAt]

ServerIdle ==
  /\ ServerInit
  /\ hasKey = TRUE

\* Only a response that is ok carries places.
ResponsesOf(outcome) == IF outcome = "ok" THEN ResultLists ELSE {<< >>}

ServerNext ==
  \/ \E r \in Requests : ReceiveRequest(r)
  \/ RateLimiting
  \/ ParseBody
  \/ \E o \in VisionOutcomes, h \in Hints : VisionIdentify(o, h)
  \/ \E o \in SearchOutcomes : \E rs \in ResponsesOf(o) : TextSearch(o, rs)
  \/ \E o \in SearchOutcomes : \E rs \in ResponsesOf(o) : NearbySearch(o, rs)
  \/ \E o \in DetailOutcomes : PlaceDetails(o)
  \/ \E f \in BOOLEAN : GeoContext(f)
  \/ \E o \in SearchOutcomes : \E rs \in ResponsesOf(o) : GeoContextFetch(o, rs)
  \/ Respond

\* A request of client c reaches a handler, seen from the limiter alone.
ClientCall(c) ==
  /\ CallCheckRateLimit(c)
  /\ UNCHANGED <<pageVars, serverVars, rankVars, smVars>>

RLNext ==
  \/ \E c \in Clients : ClientCall(c)
  \/ Tick

Init == PageInit /\ RLInit /\ ServerIdle /\ RankIdle /\ SMInit /\ LibInit
Next == PageNext
Spec == Init /\ [][Next]_vars

InitServer == PageInit /\ ServerRLInit /\ ServerInit /\ RankIdle /\ SMInit /\ LibInit
NextServer == ServerNext
SpecServer == InitServer /\ [][NextServer]_vars

InitRL == PageInit /\ RLInit /\ ServerIdle /\ RankIdle /\ SMInit /\ LibInit
NextRL == RLNext
SpecRL == InitRL /\ [][NextRL]_vars

InitRank == PageInit /\ RLInit /\ ServerIdle /\ RankInit /\ SMInit /\ LibInit
NextRank == RankNext
SpecRank == InitRank /\ [][NextRank]_vars

InitSM == PageInit /\ RLInit /\ ServerIdle /\ RankIdle /\ SMInit /\ LibInit
NextSM == SMNext \/ onStateChange
SpecSM == InitSM /\ [][NextSM]_vars

SpecSmoother == InitSM /\ [][NextSmoother]_vars

\* The arguments: every vector with components -1, 0 or 2.
InitVec ==
  /\ PageInit /\ RLInit /\ ServerIdle /\ RankIdle /\ SMInit
  /\ smoothCalls = << >>
  /\ returned = 0
  /\ resetDiscarded = -1
  /\ libOp = "none"
  /\ vecA \in [x : {-1, 0, 2}, y : {-1, 0, 2}, z : {-1, 0, 2}]
  /\ vecB \in [x : {-1, 0, 2}, y : {-1, 0, 2}, z : {-1, 0, 2}]
  /\ vecResult = 0

SpecVec ==
  /\ InitVec
  /\ [][\E fn \in {"normalize2D", "normalize3D", "angleBetween3D"} :
          CallVector(fn)]_vars

\* The page when the 100 ms timer fires and every promise handleTap awaits
\* (extractROI, fetch, response.json) settles.
SpecLive ==
  /\ Init
  /\ [][Next]_vars
  /\ WF_vars(\E a \in Attempts : DismissDelayOver(a))
  /\ WF_vars(\E a \in Attempts, resolved \in BOOLEAN : ExtractSettled(a, resolved))
  /\ WF_vars(\E a \in Attempts, o \in FetchOutcomes : FetchSettled(a, o))

\* The machine with a gesture that ends, under a clock that keeps advancing,
\* timeouts that are re-evaluated against it and a microtask queue that runs.
NextSMLive == SMNext \/ SignalsEnd
SpecSMLive ==
  /\ InitSM
  /\ [][NextSMLive]_vars
  /\ WF_vars(Advance)
  /\ WF_vars(checkTimeouts)
  /\ WF_vars(enterDisplay)

\* ------------------------------------------------------------------------
\* Claims about the client page (checked under Spec)
\* ------------------------------------------------------------------------

\* C1: at most one /api/tap-context attempt is in flight at any time, for
\* every interleaving of tap events with the steps of an attempt, including
\* when a card is displayed at the moment of the tap.
C1_AtMostOneInFlight == Cardinality(InFlight) <= 1

\* C2: a tap accepted while a card is displayed removes that card at once:
\* from the acceptance on, through the sending of the new request and the
\* arrival of its result, the old card is not displayed again, and the card
\* (one value) is null or a single result.
C2_OldCardRemoved ==
  /\ contextCard \in {0} \cup Attempts
  /\ \A a \in Attempts :
       (attempt[a] # "none" /\ cardAtTap[a] # 0) =>
          /\ contextCard # cardAtTap[a]
          /\ attempt[a] \in {"fetch", "done"} => cardAtSend[a] # cardAtTap[a]

\* C2 witness: an attempt accepted over a displayed card has finished and its
\* own result is the card now displayed.
C2_Witness ==
  \E a \in Attempts :
     attempt[a] = "done" /\ cardAtTap[a] # 0 /\ contextCard = a

\* C3: a single user tap produces exactly one request: the requests sent
\* never outnumber the user's taps, although a tap reaches handleTap through
\* touchstart and through click.
C3_OneRequestPerTap == requestsSent <= userTaps

\* C4: no request is issued without a tap: after mount, location
\* acquisition, per-frame callbacks and elapsed timers, the requests sent are
\* at most the tap events handled.
C4_NoRequestWithoutTap == requestsSent <= tapEvents

\* C4 witness: the location has been acquired, a frame callback has run, a
\* tap has been handled and its request has been sent.
C4_Witness ==
  /\ ~geoAsked /\ location = "known" /\ frames >= 1
  /\ tapEvents >= 1 /\ requestsSent >= 1

\* ------------------------------------------------------------------------
\* Claims about POST /api/tap-context (checked under SpecServer)
\* ------------------------------------------------------------------------
PlaceSearches == Calls("text") + Calls("nearby") + Calls("geoNearby")

\* C5: one attempt issues exactly one vision call and at most one
\* place-search call (one text search or one nearby search), and repeats no
\* collaborator call.
C5_OneVisionOnePlaceSearch ==
  /\ Calls("vision") <= 1
  /\ PlaceSearches <= 1
  /\ (spc = "done" /\ visionKind \notin {"none", "nokey"}) => Calls("vision") = 1

\* C6: the handler never throws out to its caller: every finished execution
\* has a JSON result, and an exception caught at the outer boundary gives
\* status 500 with the generic 'Context lookup failed' body, in which the
\* exception's own text does not appear.
C6_AlwaysJsonNeverLeaks ==
  spc = "done" =>
    /\ result.kind # "none"
    /\ result.status \in {200, 400, 429, 500}
    /\ thrown # "" =>
         /\ result.status = 500
         /\ result.error = "Context lookup failed"
         /\ result.error # thrown
         /\ result.subtitle # thrown
         /\ result.title = NoName
    /\ result.status = 500 => thrown # ""

\* C6 witness: latitude.toFixed threw in the final fallback, after the whole
\* pipeline had run, and the attempt finished.
C6_Witness ==
  /\ spc = "done"
  /\ thrown = "toFixed is not a function"
  /\ Calls("vision") = 1

\* C6 witness (request parsing): request.json() threw.
C6_WitnessParse ==
  /\ spc = "done"
  /\ thrown = "Unexpected end of JSON input"

\* C7: the rate limiter is consulted before anything else, and a denial
\* short-circuits: the attempt returns 429 with the limiter's reset time and
\* makes no vision, place-search, detail or geo-context call; the nested
\* geo-context handler likewise makes no Places request after a denial.
C7_DenialShortCircuits ==
  /\ spc \notin {"idle", "start"} => rateLimit.id = req.client
  /\ callLog # << >> => rateLimit.allowed
  /\ (spc = "done" /\ ~rateLimit.allowed) =>
        /\ result.status = 429
        /\ result.resetAt = rateLimit.resetAt
        /\ callLog = << >>
  /\ Calls("geoNearby") > 0 => lastReturn.allowed

\* C7 witness: a request of a client whose window is used up has been
\* answered 429.
C7_Witness ==
  /\ spc = "done"
  /\ ~rateLimit.allowed
  /\ result.status = 429
  /\ rateLimitStore[req.client].count = RATE_LIMIT_MAX_REQUESTS

\* The vision collaborator failed: no credential, a thrown error, a non-OK
\* status, no text, or text from which neither JSON.parse nor the patterns
\* got any field.
VisionFailed ==
  \/ visionKind \in {"nokey", "throw", "notok", "notext", "nobraces"}
  \/ /\ visionKind = "badjson"
     /\ visionResult.name = NoName
     /\ visionResult.type = ""
     /\ visionResult.description = ""

\* C9: a failure of the vision collaborator yields a null vision hint and
\* never aborts the attempt, which still ends in a typed result.
C9_VisionFailureGivesNull ==
  VisionFailed =>
    /\ ~visionResult.some
    /\ spc = "done" => result.kind # "none"

\* C10: whenever a candidate has been accepted and its detail fetch returns
\* a record, the attempt returns the merged result with confidence exactly
\* 0.9, whatever the candidate's score.
C10_MergedIsPoint9 ==
  (spc = "done" /\ placeId # 0 /\ detail = "record") =>
     /\ result.status = 200
     /\ result.kind = "merged"
     /\ result.confidence = Conf(90)

\* C10 witness: a place accepted by the text search at a composite score
\* other than 0.9 was enriched and returned.
C10_Witness ==
  /\ spc = "done"
  /\ placeFrom = "text"
  /\ detail = "record"
  /\ result.kind = "merged"
  /\ 3 * TextScore60000(visionResult.name, CandById(placeId)) # 2 * Conf(90)

\* C10 witness (nearby): the same for a place accepted by direction.
C10_WitnessNearby ==
  /\ spc = "done"
  /\ placeFrom = "nearby"
  /\ detail = "record"
  /\ result.kind = "merged"

\* ------------------------------------------------------------------------
\* Claims about the rate limiter (checked under SpecRL)
\* ------------------------------------------------------------------------
\* C8: per client, at most 60 requests are allowed in a fixed 60-second
\* window: an entry's count never exceeds 60, the calls allowed in one
\* window never exceed 60, a denial is only ever returned before resetAt
\* with the window used up, and the remaining figure of an allowed call is
\* 60 minus the calls allowed so far.
C8_AtMostSixtyPerWindow ==
  /\ \A c \in Clients :
       /\ rateLimitStore[c].count <= RATE_LIMIT_MAX_REQUESTS
       /\ granted[c] <= RATE_LIMIT_MAX_REQUESTS
       /\ granted[c] = RATE_LIMIT_MAX_REQUESTS =>
            rateLimitStore[c].count = RATE_LIMIT_MAX_REQUESTS
  /\ lastReturn.id # "" =>
       /\ lastReturn.resetAt - RATE_LIMIT_WINDOW_MS <= lastReturn.at
       /\ lastReturn.at < lastReturn.resetAt
       /\ IF lastReturn.allowed
            THEN lastReturn.remaining >= 0
            ELSE /\ granted[lastReturn.id] = RATE_LIMIT_MAX_REQUESTS
                 /\ lastReturn.remaining = 0

\* C8 witness: a client has been allowed 60 calls in a window and its next
\* call, made before resetAt, was denied.
C8_Witness ==
  /\ lastReturn.id = "ip1"
  /\ ~lastReturn.allowed
  /\ granted["ip1"] = RATE_LIMIT_MAX_REQUESTS
  /\ lastReturn.at < lastReturn.resetAt
  /\ now > 0

\* ------------------------------------------------------------------------
\* Properties of the fallback ladder of POST /api/tap-context
\* ------------------------------------------------------------------------
\* C11: whenever the attempt ends with a vision hint and no accepted place,
\* the response is the vision-only result: status 200, confidence 0.7, and
\* as title the hint's name or 'Building' when the hint has no name.
C11_HintWithoutPlaceIsVisionOnly ==
  (spc = "done" /\ visionResult.some /\ placeId = 0) =>
     /\ result.status = 200
     /\ result.kind = "visionOnly"
     /\ result.confidence = Conf(70)
     /\ result.title = IF visionResult.name # NoName THEN visionResult.name
                       ELSE <<"Building">>

C13_NoLocationNoHint ==
  (/\ spc = "done"
   /\ visionKind # "none"
   /\ ~visionResult.some
   /\ (req.lat = "absent" \/ req.lon = "absent")) =>
     /\ result.status = 200
     /\ result.error = ""
     /\ result.title = <<"Location", "Required">>
     /\ result.confidence = Conf(30)
     /\ thrown = ""
     /\ \A k \in {"text", "nearby", "details", "geo", "geoNearby"} : Calls(k) = 0

\* C13 witness: the vision call was made and gave no text, the request has
\* a longitude but no latitude, and the response is 'Location Required'.
C13_Witness ==
  /\ spc = "done"
  /\ visionKind = "notext"
  /\ Calls("vision") = 1
  /\ req.lat = "absent"
  /\ req.lon = "num"
  /\ result.title = <<"Location", "Required">>
  /\ result.status = 200

\* C14 as stated: whenever the attempt ends without a vision hint after a
\* nearby search that accepted no place, the response is 'No Information
\* Found' with confidence 0.3 and carries the tap coordinates.
C14_NothingFoundWithTap ==
  (spc = "done" /\ ~visionResult.some /\ Calls("nearby") = 1 /\ placeId = 0) =>
     /\ result.title = <<"No", "Information", "Found">>
     /\ result.confidence = Conf(30)
     /\ result.subtitle = "tap coordinates"

\* C14: whenever the attempt ends without a vision hint after a nearby
\* search that accepted no place, with a numeric latitude and longitude and
\* with no place from the geo-context search either, the response is 'No
\* Information Found' with status 200 and confidence 0.3, and its subtitle
\* carries the latitude and longitude, not the tap coordinates.
C14_NothingFoundWithLocation ==
  (/\ spc = "done"
   /\ ~visionResult.some
   /\ Calls("nearby") = 1
   /\ placeId = 0
   /\ geoPlace = 0
   /\ IsNumber(req.lat) /\ IsNumber(req.lon)) =>
     /\ result.status = 200
     /\ result.title = <<"No", "Information", "Found">>
     /\ result.confidence = Conf(30)
     /\ result.subtitle = "location coordinates"

\* C14 witness: no hint, the nearby search and the geo-context search were
\* both made and gave no place, and the response is 'No Information Found'.
C14_Witness ==
  /\ spc = "done"
  /\ ~visionResult.some
  /\ Calls("nearby") = 1
  /\ Calls("geoNearby") = 1
  /\ placeId = 0
  /\ geoPlace = 0
  /\ result.title = <<"No", "Information", "Found">>

C16_OrderIndependent ==
  rpc = "ranked" => rankPicked.first = rankPicked.second

\* C16: for the same places, hint, location and tap, a strategy accepts the
\* same place in whatever order the places are listed, provided no two
\* different places share the highest score; places with equal scores are
\* taken in the order of the response.
C16_OrderIndependentUnlessTied ==
  LET scored == WithGeometry(rankResults)
      Best(i) ==
        IF rankPicked.strategy = "text"
          THEN \A j \in 1..Len(scored) :
                 TextScore60000(rankHint.name, scored[i])
                   >= TextScore60000(rankHint.name, scored[j])
          ELSE \A j \in 1..Len(scored) :
                 NearbyNum(rankHint, rankTapX, scored[i]) * NearbyDen(scored[j])
                   >= NearbyNum(rankHint, rankTapX, scored[j]) * NearbyDen(scored[i])
      tied == \E i, j \in 1..Len(scored) :
                 Best(i) /\ Best(j) /\ scored[i].id # scored[j].id
  IN (rpc = "ranked" /\ ~tied) => rankPicked.first = rankPicked.second

\* C16 witness: two different places with different scores, listed in both
\* orders, and the same place accepted from both.
C16_Witness ==
  /\ rpc = "ranked"
  /\ rankPicked.strategy = "text"
  /\ Len(rankResults) = 2
  /\ rankResults[1].id = 2 /\ rankResults[2].id = 1
  /\ rankOrder # rankResults
  /\ rankPicked.first = 1
  /\ rankPicked.second = 1

\* ------------------------------------------------------------------------
\* Properties of the gesture state machine
\* ------------------------------------------------------------------------
\* C18: an update made in IDLE leaves the machine in CANDIDATE exactly when
\* its signal has a position and a direction and a strength of at least
\* T_enter, and otherwise leaves it in IDLE.
C18_IdleToCandidate ==
  (lastOp = "update" /\ prevState = "IDLE") =>
     IF /\ lastSignal.position
        /\ lastSignal.direction # "none"
        /\ lastSignal.strength >= T_enter
       THEN state = "CANDIDATE"
       ELSE state = "IDLE"

\* C18 witness: one update with strength 0.8, a position and a direction
\* took a machine with an empty history from IDLE to CANDIDATE.
C18_Witness ==
  /\ lastOp = "update"
  /\ prevState = "IDLE"
  /\ state = "CANDIDATE"
  /\ lastSignal = [position |-> TRUE, direction |-> "fwd", strength |-> 80]
  /\ Len(history) = 1

\* C18 witness: an update with strength 0.8 and a position but no direction
\* left the machine in IDLE.
C18_WitnessStays ==
  /\ lastOp = "update"
  /\ prevState = "IDLE"
  /\ state = "IDLE"
  /\ lastSignal = [position |-> TRUE, direction |-> "none", strength |-> 80]

\* C19: the engine has been invoked exactly as often as INTENT_LOCKED has
\* been entered, and an update with a qualifying signal made in DISPLAY
\* leaves the machine in DISPLAY with the release timer restarted.
C19_OncePerLock ==
  /\ engineCalls = lockEntries
  /\ state = "INTENT_LOCKED" => engineCalls >= 1
  /\ (/\ lastOp = "update"
      /\ prevState = "DISPLAY"
      /\ lastSignal.position
      /\ lastSignal.direction # "none"
      /\ lastSignal.strength >= T_enter) =>
        /\ state = "DISPLAY"
        /\ sinceTimestamp = 0

\* C19 witness: after one identification, a qualifying signal arrived in
\* DISPLAY; the machine is still in DISPLAY and the engine has been invoked
\* once.
C19_Witness ==
  /\ lastOp = "update"
  /\ prevState = "DISPLAY"
  /\ state = "DISPLAY"
  /\ lastSignal = [position |-> TRUE, direction |-> "fwd", strength |-> 80]
  /\ lockEntries = 1
  /\ engineCalls = 1

\* C20: before any operation the machine is in IDLE, and every change of
\* state made by an update, by a timeout or by the microtask follows one of
\* the six edges.
C20_OnlyTheSixEdges ==
  /\ lastOp = "none" => state = "IDLE"
  /\ (lastOp \in {"update", "timer", "microtask"} /\ prevState # state) =>
        <<prevState, state>> \in
          { <<"IDLE", "CANDIDATE">>, <<"CANDIDATE", "INTENT_LOCKED">>,
            <<"CANDIDATE", "RELEASE">>, <<"INTENT_LOCKED", "DISPLAY">>,
            <<"DISPLAY", "RELEASE">>, <<"RELEASE", "IDLE">> }
  /\ lastOp = "advance" => prevState = state

\* C20 witness: the machine has gone round once and an update has just taken
\* it from RELEASE to IDLE.
C20_Witness ==
  /\ lastOp = "update"
  /\ prevState = "RELEASE"
  /\ state = "IDLE"
  /\ lockEntries = 1

\* C20 witness: reset() took the machine from DISPLAY to IDLE.
C20_WitnessReset ==
  /\ lastOp = "reset"
  /\ prevState = "DISPLAY"
  /\ state = "IDLE"

C22_DirectionChangeResetsStability ==
  (/\ lastOp = "update"
   /\ prevState = "CANDIDATE"
   /\ lastSignal.position
   /\ lastSignal.direction # "none"
   /\ lastSignal.strength >= T_enter) =>
     IF lastSignal.direction # ctxBefore.direction
       THEN /\ stabilityDuration = 0
            /\ lastDirection = lastSignal.direction
            /\ state = "CANDIDATE"
       ELSE /\ stabilityDuration =
                 Min(ctxBefore.stability + ctxBefore.since, T_stability)
            /\ lastDirection = ctxBefore.direction

\* C22 witness: a candidate that had held one direction for 300 ms received
\* a signal with another direction; it is still a candidate, its stability
\* duration is 0 and the new direction is recorded.
C22_Witness ==
  /\ lastOp = "update"
  /\ prevState = "CANDIDATE"
  /\ state = "CANDIDATE"
  /\ ctxBefore.stability = T_stability
  /\ ctxBefore.direction = "fwd"
  /\ lastSignal = [position |-> TRUE, direction |-> "side", strength |-> 80]
  /\ stabilityDuration = 0
  /\ lastDirection = "side"

\* C22 witness: a candidate with 100 ms of stability received a signal with
\* the same direction 200 ms later and now has 300 ms of stability.
C22_WitnessAccumulates ==
  /\ lastOp = "update"
  /\ prevState = "CANDIDATE"
  /\ ctxBefore.stability = 100
  /\ ctxBefore.since = 200
  /\ ctxBefore.direction = lastSignal.direction
  /\ stabilityDuration = 300

\* C23: right after reset(), whatever state it was called in, the state is
\* IDLE, the confidence is 0, the stability duration is 0, the smoother's
\* history is empty, no recorded direction is left, and nothing is pending:
\* neither a timeout nor the microtask can change the state.
C23_ResetClearsEverything ==
  lastOp = "reset" =>
    /\ state = "IDLE"
    /\ ctxConfidence = 0
    /\ stabilityDuration = 0
    /\ sinceTimestamp = 0
    /\ lastDirection = "none"
    /\ history = << >>
    /\ exponentialMovingAverage(history) = 0
    /\ ~ ENABLED checkTimeouts
    /\ ~ ENABLED enterDisplay
    /\ ~ ENABLED Advance

\* C23 witness: reset() was called on a candidate with 300 ms of stability,
\* a running timeout clock and three samples in the smoother; the machine is
\* in IDLE with everything cleared.
C23_Witness ==
  /\ lastOp = "reset"
  /\ prevState = "CANDIDATE"
  /\ ctxBefore.stability = T_stability
  /\ ctxBefore.since > 0
  /\ ctxBefore.samples = 3
  /\ state = "IDLE"
  /\ history = << >>

\* C23 witness: reset() was called in INTENT_LOCKED, before the microtask.
C23_WitnessLocked ==
  /\ lastOp = "reset"
  /\ prevState = "INTENT_LOCKED"
  /\ state = "IDLE"
  /\ stabilityDuration = 0

\* C24: once no qualifying signal arrives any more, the machine eventually
\* is in IDLE, whatever state it was in.
C24_EventuallyIdle == signalsEnded ~> (state = "IDLE")

\* C24 witness: the gesture ended, and the fade timeout has taken the
\* machine, which had displayed a result, from RELEASE to IDLE.
C24_Witness ==
  /\ signalsEnded
  /\ lastOp = "timer"
  /\ prevState = "RELEASE"
  /\ state = "IDLE"
  /\ lockEntries = 1

\* C25: the callback calls made by the last operation are, when that
\* operation changed the state, exactly one call of every registered
\* observer with the new state, and no call at all when it did not change
\* the state.
C25_ObserversNotifiedOnce ==
  IF prevState # state
    THEN /\ Len(notifications) = observers
         /\ \A o \in 1..observers :
              /\ Cardinality({i \in 1..Len(notifications) :
                                notifications[i].observer = o}) = 1
              /\ \A i \in 1..Len(notifications) :
                   notifications[i].observer = o =>
                     notifications[i].newState = state
    ELSE notifications = << >>

\* C25 witness: with two observers registered, an update took the machine
\* from IDLE to CANDIDATE and both were called with CANDIDATE.
C25_Witness ==
  /\ observers = 2
  /\ lastOp = "update"
  /\ prevState = "IDLE"
  /\ state = "CANDIDATE"
  /\ notifications = << [observer |-> 1, newState |-> "CANDIDATE"],
                        [observer |-> 2, newState |-> "CANDIDATE"] >>

\* C25 witness: the microtask told both observers of DISPLAY.
C25_WitnessMicrotask ==
  /\ observers = 2
  /\ lastOp = "microtask"
  /\ state = "DISPLAY"
  /\ Len(notifications) = 2

\* ------------------------------------------------------------------------
\* Properties of the confidence smoother
\* ------------------------------------------------------------------------
\* C26: every value smooth and getCurrent return lies in [0,1], whatever
\* values were passed to smooth; -0.5 alone is answered with 0 and 1.5 alone
\* with 1.
C26_SmoothedInUnitRange ==
  /\ libOp \in {"smooth", "getCurrent"} => returned \in 0..(16 * 100)
  /\ (libOp = "smooth" /\ smoothCalls = << -50 >>) => returned = 0
  /\ (libOp = "smooth" /\ smoothCalls = << 150 >>) => returned = 16 * 100

\* C27: the first smooth(v) of a smoother whose history is empty, fresh or
\* just reset, returns v when v is in [0,1]; getCurrent on an empty history
\* returns 0; reset() leaves the history empty.
C27_FirstValueUnchanged ==
  /\ (/\ libOp = "smooth"
      /\ Len(smoothCalls) = 1
      /\ smoothCalls[1] \in 0..100) => returned = 16 * smoothCalls[1]
  /\ (libOp = "getCurrent" /\ smoothCalls = << >>) => returned = 0
  /\ libOp = "reset" => history = << >>

\* C27 witness: after three values and a reset(), smooth(0.3) returned 0.3.
C27_Witness ==
  /\ resetDiscarded = 3
  /\ libOp = "smooth"
  /\ smoothCalls = << 30 >>
  /\ returned = 16 * 30

\* C27 witness: getCurrent() after two values and a reset() returned 0.
C27_WitnessGetCurrent ==
  /\ resetDiscarded = 2
  /\ libOp = "getCurrent"
  /\ smoothCalls = << >>
  /\ returned = 0

\* C28: the history never holds more than 5 values, and the value smooth or
\* getCurrent returns is the average with factor 0.5 over the (at most) 5
\* newest values passed to smooth, each clamped to [0,1]: with n such values
\* c[1..n] it is (c[1] + c[2] + 2 c[3] + 4 c[4] + 8 c[5]) / 2^(n-1), and it
\* lies between the smallest and the largest of them.
C28_BoundedWindowAverage ==
  /\ Len(history) <= 5
  /\ (libOp \in {"smooth", "getCurrent"} /\ smoothCalls # << >>) =>
       LET n == IF Len(smoothCalls) < 5 THEN Len(smoothCalls) ELSE 5
           first == Len(smoothCalls) - n
           c(i) == LET v == smoothCalls[first + i]
                   IN IF v < 0 THEN 0 ELSE IF v > 100 THEN 100 ELSE v
           t(i) == IF i > n THEN 0 ELSE IF i = 1 THEN c(1) ELSE c(i) * 2^(i - 2)
       IN /\ returned * 2^(n - 1) = 16 * (t(1) + t(2) + t(3) + t(4) + t(5))
          /\ \E i \in 1..n : 16 * c(i) <= returned
          /\ \E i \in 1..n : returned <= 16 * c(i)

\* ------------------------------------------------------------------------
\* Properties of the vector utilities
\* ------------------------------------------------------------------------
\* C29: normalize2D of a vector whose x and y are 0 returns x 0 and y 0,
\* normalize3D of the zero vector returns the zero vector, and
\* angleBetween3D returns 0 when all components of either argument are 0.
C29_DegenerateVectors ==
  /\ (libOp = "normalize2D" /\ vecA.x = 0 /\ vecA.y = 0) =>
        vecResult = [x |-> 0, y |-> 0]
  /\ (libOp = "normalize3D" /\ vecA.x = 0 /\ vecA.y = 0 /\ vecA.z = 0) =>
        vecResult = [x |-> 0, y |-> 0, z |-> 0]
  /\ (/\ libOp = "angleBetween3D"
      /\ \/ (vecA.x = 0 /\ vecA.y = 0 /\ vecA.z = 0)
         \/ (vecB.x = 0 /\ vecB.y = 0 /\ vecB.z = 0)) => vecResult = 0

\* C29 witness: angleBetween3D of (0, 0, 2) and the zero vector returned 0.
C29_Witness ==
  /\ libOp = "angleBetween3D"
  /\ vecA = [x |-> 0, y |-> 0, z |-> 2]
  /\ vecB = [x |-> 0, y |-> 0, z |-> 0]
  /\ vecResult = 0

\* C29 witness: normalize2D of the zero vector returned the zero vector.
C29_WitnessNormalize ==
  /\ libOp = "normalize2D"
  /\ vecA = [x |-> 0, y |-> 0, z |-> 0]
  /\ vecResult = [x |-> 0, y |-> 0]

\* ------------------------------------------------------------------------
\* Dismissing the card (checked under Spec)
\* ------------------------------------------------------------------------
\* C30: every step that completes a tap on the dismiss control of the
\* displayed card (the click that calls onDismiss, or the click that ends a
\* touch on the control) leaves no card, no loading indicator, no in-progress
\* flag and no attempt that is waiting, extracting or fetching, and sends no
\* request.
C30_DismissLeavesIdle ==
  [][ (\/ dismissals' = dismissals + 1
       \/ (clickPending = "dismiss" /\ clickPending' = "none")) =>
        /\ contextCard' = 0
        /\ ~ isLoading'
        /\ ~ isProcessingRef'
        /\ requestsSent' = requestsSent
        /\ \A a \in Attempts : attempt'[a] \in {"none", "done"} ]_vars


C31_WitnessNeither ==
  /\ spc = "done"
  /\ Calls("text") = 3
  /\ Calls("nearby") = 1
  /\ placeId = 0
  /\ Calls("details") = 0


C33_TextAcceptsTopWithinRadius ==
  (rpc = "ranked" /\ rankPicked.strategy = "text" /\ rankPicked.first # 0) =>
    LET score(c) == 100 * NameScore420(rankHint.name, c.name)
                      + 18000 - 9 * Min(c.dist, 2000)
    IN \E i \in 1..Len(rankResults) :
         /\ rankResults[i].id = rankPicked.first
         /\ rankResults[i].geom
         /\ rankResults[i].dist < 2000
         /\ \A j \in 1..Len(rankResults) :
              rankResults[j].geom => score(rankResults[j]) <= score(rankResults[i])

\* A response of several candidates whose accepted place is not the one
\* listed first.
C33_Witness ==
  /\ rpc = "ranked"
  /\ rankPicked.strategy = "text"
  /\ rankPicked.first # 0
  /\ Len(rankResults) >= 2
  /\ rankResults[1].geom
  /\ rankResults[1].id # rankPicked.first

\* The best-scored candidate lies beyond 2000 m and nothing is accepted.
C33_WitnessTooFar ==
  /\ rpc = "ranked"
  /\ rankPicked.strategy = "text"
  /\ rankPicked.first = 0
  /\ Len(rankResults) >= 2
  /\ \E i \in 1..Len(rankResults) : rankResults[i].dist >= 2000
  /\ \E i \in 1..Len(rankResults) :
       rankResults[i].geom /\ rankResults[i].dist < 2000

\* ---------------------------------------------------------------------------
\* C34.  Strategy B accepts only the top-scoring candidate within 150 m whose
\* score exceeds 0.2.  Whenever the nearby ranking of one response accepts a
\* place, that place is one of the response's candidates with a position, no
\* candidate of the response has a higher composite score
\* distanceScore + 0.5 * directionScore + typeBonus, its distance is below
\* 150 m and its score is above 0.2 (one fifth).
C34_NearbyAcceptsTopWithinRadius ==
  (rpc = "ranked" /\ rankPicked.strategy = "nearby" /\ rankPicked.first # 0) =>
    LET num(c) == NearbyNum(rankHint, rankTapX, c)
    IN \E i \in 1..Len(rankResults) :
         /\ rankResults[i].id = rankPicked.first
         /\ rankResults[i].geom
         /\ rankResults[i].dist < 150
         /\ 5 * num(rankResults[i]) > NearbyDen(rankResults[i])
         /\ \A j \in 1..Len(rankResults) :
              rankResults[j].geom =>
                num(rankResults[j]) * NearbyDen(rankResults[i])
                  <= num(rankResults[i]) * NearbyDen(rankResults[j])

\* A response of several candidates whose accepted place is not the one
\* listed first.
C34_Witness ==
  /\ rpc = "ranked"
  /\ rankPicked.strategy = "nearby"
  /\ rankPicked.first # 0
  /\ Len(rankResults) >= 2
  /\ rankResults[1].geom
  /\ rankResults[1].id # rankPicked.first

\* The only candidate lies outside the radius and nothing is accepted.
C34_WitnessTooFar ==
  /\ rpc = "ranked"
  /\ rankPicked.strategy = "nearby"
  /\ rankPicked.first = 0
  /\ Len(rankResults) = 1
  /\ rankResults[1].geom
  /\ rankResults[1].dist >= 150


\* ---------------------------------------------------------------------------
\* C35.  A result card is only ever set from the response of the most
\* recently started attempt.  In every step that puts a card on the screen,
\* the card is that of the attempt started last (attempts are numbered in the
\* order in which handleTap accepted their taps); the response of an attempt
\* that a newer tap has superseded is dropped.
C35_CardFromLatestAttempt ==
  [][ (contextCard' # 0 /\ contextCard' # contextCard) =>
         contextCard' = nextAttempt - 1 ]_vars


\* ---------------------------------------------------------------------------
\* C36.  In every call of checkRateLimit (a step in which the clock stands
\* still and the value returned is the one of client id): a denied call
\* leaves the whole store as it was (count and resetAt unchanged, the window
\* not extended) and returns remaining 0 with the entry's resetAt; and a call
\* made at or after the resetAt of the client's entry is allowed, replaces the
\* entry by count 1 with a window ending 60 000 ms after the call, and returns
\* remaining 59 with that new resetAt.
C36_DenialChangesNothingAndWindowRestarts ==
  [][ (now' = now /\ lastReturn'.id \in Clients) =>
        LET id == lastReturn'.id
            entry == rateLimitStore[id]
        IN /\ ~ lastReturn'.allowed =>
                /\ rateLimitStore' = rateLimitStore
                /\ entry # NoEntry /\ now < entry.resetAt
                /\ lastReturn'.remaining = 0
                /\ lastReturn'.resetAt = entry.resetAt
           /\ (entry # NoEntry /\ now >= entry.resetAt) =>
                /\ lastReturn'.allowed
                /\ rateLimitStore'[id] = [count |-> 1, resetAt |-> now + 60000]
                /\ lastReturn'.remaining = 59
                /\ lastReturn'.resetAt = now + 60000 ]_vars

\* A call has been denied: the client's entry stands at 60 and the value
\* returned carries remaining 0 and the entry's resetAt.
C36_Witness ==
  /\ lastReturn.id \in Clients
  /\ ~ lastReturn.allowed
  /\ rateLimitStore[lastReturn.id].count = 60
  /\ lastReturn.resetAt = rateLimitStore[lastReturn.id].resetAt
  /\ now > lastReturn.resetAt - 60000

\* A window started after the first one: an allowed call at a later time
\* that returned remaining 59.
C36_WitnessNewWindow ==
  /\ lastReturn.id \in Clients
  /\ lastReturn.allowed
  /\ lastReturn.remaining = 59
  /\ lastReturn.at >= 60000
  /\ granted[lastReturn.id] = 1
  /\ rateLimitStore[lastReturn.id] = [count |-> 1, resetAt |-> lastReturn.at + 60000]


\* ---------------------------------------------------------------------------
\* C37.  Each tap-context attempt increments the client's rate-limit counter
\* exactly once, whichever path it takes.  The attempt's own rate-limiting
\* step, at its start, is the only step of the handler that changes the
\* limiter's store: no later step of the attempt counts a second request
\* against the client.
C37_CountedOncePerAttempt ==
  [][ rateLimitStore' # rateLimitStore => spc = "start" ]_vars


\* ---------------------------------------------------------------------------
\* C38.  Every attempt that sets the in-progress flag eventually clears the
\* flag and the loading indicator, however its request ends, provided the
\* request completes.  An attempt that has entered its try block (it has set
\* the flag and awaits extractROI or the request) eventually ends, and the step
\* that ends it leaves the flag and the indicator cleared; whenever the flag
\* is set it is eventually clear again together with the indicator, so the
\* gate of handleTap does not stay closed.
C38_FlagEventuallyCleared ==
  /\ \A a \in Attempts :
       (attempt[a] \in {"extract", "fetch"}) ~>
         (attempt[a] = "done" /\ ~ isProcessingRef /\ ~ isLoading)
  /\ isProcessingRef ~> (~ isProcessingRef /\ ~ isLoading)
  /\ [][ \A a \in Attempts :
           (attempt[a] \in {"extract", "fetch"} /\ attempt'[a] = "done") =>
             (~ isProcessingRef' /\ ~ isLoading') ]_vars

\* A request was sent and has completed without giving a card (an error
\* status, a thrown error or a body without a title); the flag and the
\* indicator are cleared and no attempt is in progress.
C38_Witness ==
  /\ requestsSent >= 1
  /\ contextCard = 0
  /\ \E a \in Attempts : attempt[a] = "done" /\ cardAtSend[a] = 0
  /\ \A a \in Attempts : attempt[a] \in {"none", "done"}
  /\ ~ isProcessingRef
  /\ ~ isLoading


\* ---------------------------------------------------------------------------
\* C39.  Location counts as available whenever latitude and longitude are
\* numbers, the value 0 included.  Every attempt with two numeric coordinates
\* that passes rate limiting and validation (and has a key for the place
\* search) has run a candidate search when it ends, and the 'Location
\* Required' result is returned only for a request in which a coordinate is
\* absent.
C39_ZeroCoordinateIsALocation ==
  spc = "done" =>
    /\ result.title = <<"Location", "Required">> =>
         (req.lat = "absent" \/ req.lon = "absent")
    /\ (/\ IsNumber(req.lat) /\ IsNumber(req.lon)
        /\ rateLimit.allowed
        /\ req.body = "valid"
        /\ hasKey) =>
         Calls("text") + Calls("nearby") > 0


\* ---------------------------------------------------------------------------
\* C40.  A vision-only result (confidence 0.7) is returned only for a usable
\* hint.  Whenever an attempt ends with the vision-only result, the hint
\* carries a non-empty name, type or description; an answer from which
\* neither JSON parsing nor the pattern extraction obtained a field counts as
\* no hint.
C40_VisionOnlyNeedsUsableHint ==
  (spc = "done" /\ result.kind = "visionOnly") =>
    \/ visionResult.name # NoName
    \/ visionResult.type # ""
    \/ visionResult.description # ""

====
